---- MODULE Spec2Model ----
(***************************************************************************)
(* Model of the pubmed crate (src/src/lib.rs): the XML entity decoders,    *)
(* the partial-date model and the Client retrieval operations.             *)
(*                                                                         *)
(* Data representation                                                     *)
(*   Option<T>   : <<>> is None, <<v>> is Some(v)                          *)
(*   Vec<T>      : a sequence                                              *)
(*   &str/String : a sequence of characters (one-character strings)        *)
(*   XML element : [tag, attr, text, kids]                                 *)
(*                   tag  - the element's name                             *)
(*                   attr - set of <<name, value>> pairs (names unique)    *)
(*                   text - Option<String>, what roxmltree's Node::text()  *)
(*                          returns for the element                        *)
(*                   kids - the element children, in document order        *)
(*   a decoder's value is a record of the struct's fields; a decoder that  *)
(*   panicked yields [panic |-> <<entity, tag>>].                          *)
(***************************************************************************)
EXTENDS Integers, Sequences, FiniteSets, TLC

VARIABLES
    strict,     \* the build has debug_assertions (missing_tag_warning panics)
    pc,         \* position of the calling thread
    fn,         \* the decoder that was called
    arg,        \* Option: the node (for precision, the date) it was called with
    ret,        \* Option<value>: what the call produced
    response,   \* Option: what the retrieval service answered
    doc,        \* Option<document>: the parsed response
    ids,        \* the ids a retrieval was called with
    paced       \* the sleep has elapsed since the last retrieval request was sent

vars == <<strict, pc, fn, arg, ret, response, doc, ids, paced>>

-----------------------------------------------------------------------------
(* Option and element helpers *)

None == <<>>
Some(v) == <<v>>
IsSome(o) == Len(o) > 0
IsNone(o) == Len(o) = 0
Unwrap(o) == o[1]

\* `s` as a sequence of one-character strings is written out literally.
Elem(tag, attr, text, kids) == [tag |-> tag, attr |-> attr, text |-> text, kids |-> kids]

\* roxmltree Node::attribute(name)
Attribute(node, name) ==
    IF \E p \in node.attr : p[1] = name
    THEN Some((CHOOSE p \in node.attr : p[1] = name)[2])
    ELSE None

\* n.text().map(|v| v.to_string())
TextOf(node) == node.text

\* A flag that also takes "y" for true.
YN_anycase(node, a) ==
    LET v == Attribute(node, a) IN IsSome(v) /\ Unwrap(v) \in {<<"Y">>, <<"y">>}

\* node.attribute(a).map_or(false, |v| v == "Y")
YN(node, a) == LET v == Attribute(node, a) IN IsSome(v) /\ Unwrap(v) = <<"Y">>

\* The value a panic carries: the entity and the tag named in the message
\* "Not covered in <entity>: '<tag>'".
Panic(entity, tag) == [panic |-> <<entity, tag>>]
IsPanic(r) == "panic" \in DOMAIN r

\* missing_tag_warning as called from a match arm that leaves `cur` as it is:
\* panics in a build with debug_assertions, does nothing otherwise.
missing_tag_warning_dbg(cur, entity, tag) == Panic(entity, tag)
missing_tag_warning(cur, entity, tag) ==
    IF strict THEN Panic(entity, tag) ELSE cur

\* A value is computed once and then used: `CHOOSE r \in {e(v) : v \in {x}} : TRUE`
\* is e(x) with x evaluated a single time.

\* The match-arm idioms of the decoders, `r` being what a nested decoder gave:
\* a panic of the nested decoder unwinds through the caller.
\*   cur.field = Some(r)
SetSome(cur, field, r) ==
    CHOOSE x \in {IF IsPanic(v) THEN v ELSE [cur EXCEPT ![field] = Some(v)] : v \in {r}} : TRUE
\* A push at the front of the list, which the crate never does.
PushFront(cur, field, r) ==
    CHOOSE x \in {IF IsPanic(v) THEN v ELSE [cur EXCEPT ![field] = <<v>> \o @] : v \in {r}} : TRUE
\*   cur.field.push(r)
Push(cur, field, r) ==
    CHOOSE x \in {IF IsPanic(v) THEN v ELSE [cur EXCEPT ![field] = Append(@, v)] : v \in {r}} : TRUE
\*   cur.field = PubMedDate::new_from_xml(&n)
SetOpt(cur, field, d) ==
    CHOOSE x \in {IF IsPanic(v) THEN v ELSE [cur EXCEPT ![field] = v.opt] : v \in {d}} : TRUE
\*   match PubMedDate::new_from_xml(&n) { Some(date) => cur.field.push(date), None => {} }
PushOpt(cur, field, d) ==
    CHOOSE x \in {IF IsPanic(v) THEN v
                  ELSE IF IsSome(v.opt) THEN [cur EXCEPT ![field] = Append(@, Unwrap(v.opt))]
                  ELSE cur : v \in {d}} : TRUE

-----------------------------------------------------------------------------
(* str::parse for the integer types the crate uses *)

Digits == {"0", "1", "2", "3", "4", "5", "6", "7", "8", "9"}
DigitVal(c) ==
    CASE c = "0" -> 0 [] c = "1" -> 1 [] c = "2" -> 2 [] c = "3" -> 3
      [] c = "4" -> 4 [] c = "5" -> 5 [] c = "6" -> 6 [] c = "7" -> 7
      [] c = "8" -> 8 [] c = "9" -> 9

\* core::num::from_str_radix(s, 10) for a type with range lo..hi:
\* an empty string, a lone sign, a '-' on an unsigned type, a non-digit and
\* an overflow are all Err (None here); a leading '+' is accepted.
ParseInt(s, signed, lo, hi) ==
    IF Len(s) = 0 THEN None
    ELSE IF Len(s) = 1 /\ s[1] \in {"+", "-"} THEN None
    ELSE LET neg == signed /\ s[1] = "-"
             ds  == IF s[1] = "+" \/ neg THEN Tail(s) ELSE s
             \* checked_mul(10), then checked_add or checked_sub of the digit
             Step(a, d) == IF neg THEN (IF a * 10 - d < lo THEN None ELSE Some(a * 10 - d))
                                  ELSE (IF a * 10 + d > hi THEN None ELSE Some(a * 10 + d))
             acc[i \in 0..Len(ds)] ==
                 IF i = 0 THEN Some(0)
                 ELSE CHOOSE r \in {IF IsNone(prev) \/ ds[i] \notin Digits THEN None
                                    ELSE Step(Unwrap(prev), DigitVal(ds[i])) :
                                    prev \in {acc[i-1]}} : TRUE
         IN acc[Len(ds)]

U8_MAX == 255
I8_MIN == -128
I8_MAX == 127
\* u32::MAX and u64::MAX exceed the integers of the model checker: the model
\* gives both types the range 0..WIDE_MAX, which every numeric text the model
\* draws (at most five characters) stays inside.
WIDE_MAX == 99999999

\* A parse into eight bits where the source parses into thirty-two.
parse_narrow(s) == ParseInt(s, FALSE, 0, U8_MAX)
parse_u8(s) == ParseInt(s, FALSE, 0, U8_MAX)
parse_i8(s) == ParseInt(s, TRUE, I8_MIN, I8_MAX)
parse_u32(s) == ParseInt(s, FALSE, 0, WIDE_MAX)
parse_u64(s) == ParseInt(s, FALSE, 0, WIDE_MAX)

\* A fallback that is 0 whatever the field.
unwrap_or_zero(o, d) == IF IsSome(o) THEN Unwrap(o) ELSE 0

\* Result::unwrap_or
unwrap_or(o, d) == IF IsSome(o) THEN Unwrap(o) ELSE d

\* str::to_lowercase on the characters the model uses
LowerChar(c) ==
    CASE c = "A" -> "a" [] c = "B" -> "b" [] c = "C" -> "c" [] c = "D" -> "d"
      [] c = "E" -> "e" [] c = "F" -> "f" [] c = "G" -> "g" [] c = "J" -> "j"
      [] c = "L" -> "l" [] c = "M" -> "m" [] c = "N" -> "n" [] c = "O" -> "o"
      [] c = "P" -> "p" [] c = "R" -> "r" [] c = "S" -> "s" [] c = "T" -> "t"
      [] c = "U" -> "u" [] c = "V" -> "v" [] c = "Y" -> "y"
      [] OTHER -> c
to_lowercase(s) == [i \in 1..Len(s) |-> LowerChar(s[i])]

-----------------------------------------------------------------------------
(* PubMedDate *)

MonthNames ==
    << <<"j","a","n">>, <<"f","e","b">>, <<"m","a","r">>, <<"a","p","r">>,
       <<"m","a","y">>, <<"j","u","n">>, <<"j","u","l">>, <<"a","u","g">>,
       <<"s","e","p">>, <<"o","c","t">>, <<"n","o","v">>, <<"d","e","c">> >>

\* A month parse that compares the text as written, without to_lowercase.
parse_month_from_xml_exact(node) ==
    IF IsNone(node.text) THEN 0
    ELSE LET t == Unwrap(node.text)
         IN IF \E m \in 1..12 : MonthNames[m] = t
            THEN CHOOSE m \in 1..12 : MonthNames[m] = t
            ELSE unwrap_or(parse_u8(t), 0)

\* PubMedDate::parse_month_from_xml
parse_month_from_xml(node) ==
    IF IsNone(node.text) THEN 0
    ELSE LET t == to_lowercase(Unwrap(node.text))
         IN IF \E m \in 1..12 : MonthNames[m] = t
            THEN CHOOSE m \in 1..12 : MonthNames[m] = t
            ELSE unwrap_or(parse_u8(t), 0)

\* A precision that does not look at the year.
precision_without_year(d) ==
    IF d.month = 0 THEN 9
    ELSE IF d.day = 0 THEN 10
    ELSE IF d.hour = -1 THEN 11
    ELSE IF d.minute = -1 THEN 12
    ELSE 13

\* A precision decided by the most specific field that is set.
precision_most_specific(d) ==
    IF d.year = 0 THEN 0
    ELSE IF d.minute # -1 THEN 13
    ELSE IF d.hour # -1 THEN 12
    ELSE IF d.day # 0 THEN 11
    ELSE IF d.month # 0 THEN 10
    ELSE 9

\* PubMedDate::precision
precision(d) ==
    IF d.year = 0 THEN 0
    ELSE IF d.month = 0 THEN 9
    ELSE IF d.day = 0 THEN 10
    ELSE IF d.hour = -1 THEN 11
    ELSE IF d.minute = -1 THEN 12
    ELSE 13

\* The match without its arms for MedlineDate and Season.
PubMedDate_arm_dated(cur, n) ==
    CASE n.tag = "Year" ->
            [cur EXCEPT !.year = IF IsNone(n.text) THEN 0
                                 ELSE unwrap_or(parse_u32(Unwrap(n.text)), 0)]
      [] n.tag = "Month" -> [cur EXCEPT !.month = parse_month_from_xml(n)]
      [] n.tag = "Day" ->
            [cur EXCEPT !.day = IF IsNone(n.text) THEN 0
                                ELSE unwrap_or(parse_u8(Unwrap(n.text)), 0)]
      [] n.tag = "Hour" ->
            [cur EXCEPT !.hour = IF IsNone(n.text) THEN -1
                                 ELSE unwrap_or(parse_i8(Unwrap(n.text)), -1)]
      [] n.tag = "Minute" ->
            [cur EXCEPT !.minute = IF IsNone(n.text) THEN -1
                                   ELSE unwrap_or(parse_i8(Unwrap(n.text)), -1)]
      [] OTHER -> missing_tag_warning(cur, "PubMedDate", n.tag)

\* One arm of the match in PubMedDate::new_from_xml
PubMedDate_arm(cur, n) ==
    CASE n.tag = "MedlineDate" -> cur
      [] n.tag = "Year" ->
            [cur EXCEPT !.year = IF IsNone(n.text) THEN 0
                                 ELSE unwrap_or(parse_u32(Unwrap(n.text)), 0)]
      [] n.tag = "Month" -> [cur EXCEPT !.month = parse_month_from_xml(n)]
      [] n.tag = "Day" ->
            [cur EXCEPT !.day = IF IsNone(n.text) THEN 0
                                ELSE unwrap_or(parse_u8(Unwrap(n.text)), 0)]
      [] n.tag = "Hour" ->
            [cur EXCEPT !.hour = IF IsNone(n.text) THEN -1
                                 ELSE unwrap_or(parse_i8(Unwrap(n.text)), -1)]
      [] n.tag = "Minute" ->
            [cur EXCEPT !.minute = IF IsNone(n.text) THEN -1
                                   ELSE unwrap_or(parse_i8(Unwrap(n.text)), -1)]
      [] n.tag = "Season" -> cur
      [] OTHER -> missing_tag_warning(cur, "PubMedDate", n.tag)

\* PubMedDate::new_from_xml: Option<PubMedDate>, or a panic
PubMedDate_new_from_xml(node) ==
    LET init == [year |-> 0, month |-> 0, day |-> 0, hour |-> -1, minute |-> -1,
                 date_type |-> Attribute(node, "DateType"),
                 pub_status |-> Attribute(node, "PubStatus")]
        loop[i \in 0..Len(node.kids)] ==
            IF i = 0 THEN init
            ELSE CHOOSE r \in {IF IsPanic(prev) THEN prev
                               ELSE PubMedDate_arm(prev, node.kids[i]) :
                               prev \in {loop[i-1]}} : TRUE
    IN CHOOSE x \in {IF IsPanic(r) THEN r
                     ELSE IF precision(r) = 0 THEN [opt |-> None] ELSE [opt |-> Some(r)] :
                     r \in {loop[Len(node.kids)]}} : TRUE

-----------------------------------------------------------------------------
(* Iteration helpers *)

\* node.descendants(): the node itself, then its descendants, in document
\* order (pre-order); only elements are kept, as every caller filters on
\* is_element().
RECURSIVE Descendants(_), DescendantsOfKids(_, _)
DescendantsOfKids(kids, i) ==
    IF i > Len(kids) THEN <<>>
    ELSE Descendants(kids[i]) \o DescendantsOfKids(kids, i + 1)
Descendants(node) == <<node>> \o DescendantsOfKids(node.kids, 1)

\* .filter(|n| n.is_element() && n.tag_name().name() == tag)
WithTag(nodes, tag) == SelectSeq(nodes, LAMBDA n : n.tag = tag)

-----------------------------------------------------------------------------
(* Mesh terms *)

\* MeshTermPart::new_from_xml
MeshTermPart_new_from_xml(node) ==
    [ui |-> Attribute(node, "UI"),
     major_topic |-> YN(node, "MajorTopicYN"),
     name |-> TextOf(node)]

\* A MeshHeading that is kept without a descriptor, with an empty one.
MeshHeading_new_from_xml_kept(node) ==
    LET ds == WithTag(Descendants(node), "DescriptorName")
        qs == WithTag(Descendants(node), "QualifierName")
    IN Some([descriptor |-> IF Len(ds) = 0
                            THEN [ui |-> None, major_topic |-> FALSE, name |-> None]
                            ELSE MeshTermPart_new_from_xml(ds[1]),
             qualifiers |-> [i \in 1..Len(qs) |-> MeshTermPart_new_from_xml(qs[i])]])

\* MeshHeading::new_from_xml: Option<MeshHeading>
MeshHeading_new_from_xml(node) ==
    LET ds == WithTag(Descendants(node), "DescriptorName")
        qs == WithTag(Descendants(node), "QualifierName")
    IN IF Len(ds) = 0 THEN None
       ELSE Some([descriptor |-> MeshTermPart_new_from_xml(ds[1]),
                  qualifiers |-> [i \in 1..Len(qs) |-> MeshTermPart_new_from_xml(qs[i])]])

-----------------------------------------------------------------------------
(* Article and what it owns *)

\* ELocationID::new_from_xml
ELocationID_new_from_xml(node) ==
    [e_id_type |-> Attribute(node, "EIdType"),
     valid |-> YN(node, "ValidYN"),
     id |-> TextOf(node)]

\* An Abstract that keeps the last AbstractText.
Abstract_new_from_xml_last(node) ==
    LET ts == WithTag(Descendants(node), "AbstractText")
    IN [text |-> IF Len(ts) = 0 THEN None ELSE Some(unwrap_or(ts[Len(ts)].text, <<>>))]

\* Abstract::new_from_xml: the first AbstractText among the descendants;
\* n.text().or(Some("")).unwrap_or("") gives "" for an element without text.
Abstract_new_from_xml(node) ==
    LET ts == WithTag(Descendants(node), "AbstractText")
    IN [text |-> IF Len(ts) = 0 THEN None ELSE Some(unwrap_or(ts[1].text, <<>>))]

\* Identifier::new_from_xml
Identifier_new_from_xml(node) ==
    [id |-> TextOf(node), source |-> Attribute(node, "Source")]

AffiliationInfo_arm(cur, n) ==
    CASE n.tag = "Affiliation" -> [cur EXCEPT !.affiliation = TextOf(n)]
      [] n.tag = "Identifier" ->
            [cur EXCEPT !.identifiers = Append(@, Identifier_new_from_xml(n))]
      [] OTHER -> missing_tag_warning(cur, "AffiliationInfo", n.tag)

\* AffiliationInfo::new_from_xml
AffiliationInfo_new_from_xml(node) ==
    LET init == [affiliation |-> None, identifiers |-> <<>>]
        loop[i \in 0..Len(node.kids)] ==
            IF i = 0 THEN init
            ELSE CHOOSE r \in {IF IsPanic(prev) THEN prev
                               ELSE AffiliationInfo_arm(prev, node.kids[i]) :
                               prev \in {loop[i-1]}} : TRUE
    IN loop[Len(node.kids)]

Author_arm(cur, n) ==
    CASE n.tag = "LastName" -> [cur EXCEPT !.last_name = TextOf(n)]
      [] n.tag = "ForeName" -> [cur EXCEPT !.fore_name = TextOf(n)]
      [] n.tag = "CollectiveName" -> [cur EXCEPT !.collective_name = TextOf(n)]
      [] n.tag = "Initials" -> [cur EXCEPT !.initials = TextOf(n)]
      [] n.tag = "Suffix" -> [cur EXCEPT !.suffix = TextOf(n)]
      [] n.tag = "Identifier" ->
            [cur EXCEPT !.identifiers = Append(@, Identifier_new_from_xml(n))]
      [] n.tag = "AffiliationInfo" -> SetSome(cur, "affiliation_info", AffiliationInfo_new_from_xml(n))
      [] OTHER -> missing_tag_warning(cur, "Author", n.tag)

\* Author::new_from_xml
Author_new_from_xml(node) ==
    LET init == [last_name |-> None, fore_name |-> None, initials |-> None,
                 suffix |-> None, collective_name |-> None,
                 affiliation_info |-> None, identifiers |-> <<>>,
                 valid |-> YN(node, "ValidYN")]
        loop[i \in 0..Len(node.kids)] ==
            IF i = 0 THEN init
            ELSE CHOOSE r \in {IF IsPanic(prev) THEN prev
                               ELSE Author_arm(prev, node.kids[i]) :
                               prev \in {loop[i-1]}} : TRUE
    IN loop[Len(node.kids)]

\* AuthorList::new_from_xml: every Author element among the descendants
AuthorList_new_from_xml(node) ==
    LET as == WithTag(Descendants(node), "Author")
        init == [complete |-> YN(node, "CompleteYN"), authors |-> <<>>]
        loop[i \in 0..Len(as)] ==
            IF i = 0 THEN init
            ELSE CHOOSE r \in {IF IsPanic(prev) THEN prev
                               ELSE Push(prev, "authors", Author_new_from_xml(as[i])) :
                               prev \in {loop[i-1]}} : TRUE
    IN loop[Len(as)]

JournalIssue_arm(cur, n) ==
    CASE n.tag = "PubDate" -> SetOpt(cur, "pub_date", PubMedDate_new_from_xml(n))
      [] n.tag = "Volume" -> [cur EXCEPT !.volume = TextOf(n)]
      [] n.tag = "Issue" -> [cur EXCEPT !.issue = TextOf(n)]
      [] OTHER -> missing_tag_warning(cur, "JournalIssue", n.tag)

\* JournalIssue::new_from_xml (JournalIssue::new gives the initial value)
JournalIssue_new_from_xml(node) ==
    LET init == [cited_medium |-> Attribute(node, "CitedMedium"),
                 volume |-> None, issue |-> None, pub_date |-> None]
        loop[i \in 0..Len(node.kids)] ==
            IF i = 0 THEN init
            ELSE CHOOSE r \in {IF IsPanic(prev) THEN prev
                               ELSE JournalIssue_arm(prev, node.kids[i]) :
                               prev \in {loop[i-1]}} : TRUE
    IN loop[Len(node.kids)]

Journal_arm(cur, n) ==
    CASE n.tag = "ISSN" ->
            [cur EXCEPT !.issn = TextOf(n), !.issn_type = Attribute(n, "IssnType")]
      [] n.tag = "JournalIssue" -> SetSome(cur, "journal_issue", JournalIssue_new_from_xml(n))
      [] n.tag = "Title" -> [cur EXCEPT !.title = TextOf(n)]
      [] n.tag = "ISOAbbreviation" -> [cur EXCEPT !.iso_abbreviation = TextOf(n)]
      [] OTHER -> missing_tag_warning(cur, "Journal", n.tag)

\* Journal::new_from_xml (Journal::new gives the initial value)
Journal_new_from_xml(node) ==
    LET init == [issn |-> None, issn_type |-> None, journal_issue |-> None,
                 title |-> None, iso_abbreviation |-> None]
        loop[i \in 0..Len(node.kids)] ==
            IF i = 0 THEN init
            ELSE CHOOSE r \in {IF IsPanic(prev) THEN prev
                               ELSE Journal_arm(prev, node.kids[i]) :
                               prev \in {loop[i-1]}} : TRUE
    IN loop[Len(node.kids)]

Grant_arm(cur, n) ==
    CASE n.tag = "GrantID" -> [cur EXCEPT !.grant_id = TextOf(n)]
      [] n.tag = "Agency" -> [cur EXCEPT !.agency = TextOf(n)]
      [] n.tag = "Country" -> [cur EXCEPT !.country = TextOf(n)]
      [] n.tag = "Acronym" -> [cur EXCEPT !.acronym = TextOf(n)]
      [] OTHER -> missing_tag_warning(cur, "Grant", n.tag)

\* Grant::new_from_xml
Grant_new_from_xml(node) ==
    LET init == [grant_id |-> None, agency |-> None, country |-> None, acronym |-> None]
        loop[i \in 0..Len(node.kids)] ==
            IF i = 0 THEN init
            ELSE CHOOSE r \in {IF IsPanic(prev) THEN prev
                               ELSE Grant_arm(prev, node.kids[i]) :
                               prev \in {loop[i-1]}} : TRUE
    IN loop[Len(node.kids)]

\* GrantList::new_from_xml: every Grant element among the descendants
GrantList_new_from_xml(node) ==
    LET gs == WithTag(Descendants(node), "Grant")
        init == [complete |-> YN(node, "CompleteYN"), grants |-> <<>>]
        loop[i \in 0..Len(gs)] ==
            IF i = 0 THEN init
            ELSE CHOOSE r \in {IF IsPanic(prev) THEN prev
                               ELSE Push(prev, "grants", Grant_new_from_xml(gs[i])) :
                               prev \in {loop[i-1]}} : TRUE
    IN loop[Len(gs)]

\* PublicationType::new_from_xml
PublicationType_new_from_xml(node) ==
    [ui |-> Attribute(node, "UI"), name |-> TextOf(node)]

\* The inner match of the "Pagination" arm of Article::new_from_xml
Pagination_arm(cur, n2) ==
    CASE n2.tag = "MedlinePgn" ->
            [cur EXCEPT !.pagination = Append(@, unwrap_or(n2.text, <<>>))]
      [] OTHER -> missing_tag_warning(cur, "Pagination", n2.tag)

Article_arm(cur, n) ==
    CASE n.tag = "ArticleTitle" -> [cur EXCEPT !.title = TextOf(n)]
      [] n.tag = "Journal" -> SetSome(cur, "journal", Journal_new_from_xml(n))
      [] n.tag = "Pagination" ->
            LET loop[i \in 0..Len(n.kids)] ==
                    IF i = 0 THEN cur
                    ELSE CHOOSE r \in {IF IsPanic(prev) THEN prev
                               ELSE Pagination_arm(prev, n.kids[i]) :
                               prev \in {loop[i-1]}} : TRUE
            IN loop[Len(n.kids)]
      [] n.tag = "ELocationID" ->
            [cur EXCEPT !.e_location_ids = Append(@, ELocationID_new_from_xml(n))]
      [] n.tag = "Abstract" -> [cur EXCEPT !.the_abstract = Some(Abstract_new_from_xml(n))]
      [] n.tag = "AuthorList" -> SetSome(cur, "author_list", AuthorList_new_from_xml(n))
      [] n.tag = "Language" -> [cur EXCEPT !.language = TextOf(n)]
      [] n.tag = "VernacularTitle" -> [cur EXCEPT !.vernacular_title = TextOf(n)]
      [] n.tag = "GrantList" -> SetSome(cur, "grant_list", GrantList_new_from_xml(n))
      [] n.tag = "ArticleDate" -> PushOpt(cur, "article_date", PubMedDate_new_from_xml(n))
      [] n.tag = "PublicationTypeList" ->
            LET ps == WithTag(n.kids, "PublicationType")
            IN [cur EXCEPT !.publication_type_list =
                    [i \in 1..Len(ps) |-> PublicationType_new_from_xml(ps[i])]]
      [] n.tag = "DataBankList" -> cur
      [] OTHER -> missing_tag_warning(cur, "Article", n.tag)

\* Article::new
Article_new ==
    [pub_model |-> None, journal |-> None, title |-> None, pagination |-> <<>>,
     e_location_ids |-> <<>>, the_abstract |-> None, author_list |-> None,
     language |-> None, vernacular_title |-> None, grant_list |-> None,
     publication_type_list |-> <<>>, article_date |-> <<>>]

\* Article::new_from_xml
Article_new_from_xml(node) ==
    LET init == [Article_new EXCEPT !.pub_model = Attribute(node, "PubModel")]
        loop[i \in 0..Len(node.kids)] ==
            IF i = 0 THEN init
            ELSE CHOOSE r \in {IF IsPanic(prev) THEN prev
                               ELSE Article_arm(prev, node.kids[i]) :
                               prev \in {loop[i-1]}} : TRUE
    IN loop[Len(node.kids)]

-----------------------------------------------------------------------------
(* MedlineCitation and what it owns *)

MedlineJournalInfo_arm(cur, n) ==
    CASE n.tag = "Country" -> [cur EXCEPT !.country = TextOf(n)]
      [] n.tag = "MedlineTA" -> [cur EXCEPT !.medline_ta = TextOf(n)]
      [] n.tag = "NlmUniqueID" -> [cur EXCEPT !.nlm_unique_id = TextOf(n)]
      [] n.tag = "ISSNLinking" -> [cur EXCEPT !.issn_linking = TextOf(n)]
      [] OTHER -> missing_tag_warning(cur, "MedlineJournalInfo", n.tag)

\* MedlineJournalInfo::new_from_xml
MedlineJournalInfo_new_from_xml(node) ==
    LET init == [country |-> None, medline_ta |-> None,
                 nlm_unique_id |-> None, issn_linking |-> None]
        loop[i \in 0..Len(node.kids)] ==
            IF i = 0 THEN init
            ELSE CHOOSE r \in {IF IsPanic(prev) THEN prev
                               ELSE MedlineJournalInfo_arm(prev, node.kids[i]) :
                               prev \in {loop[i-1]}} : TRUE
    IN loop[Len(node.kids)]

KeywordList_arm(cur, n) ==
    CASE n.tag = "Keyword" ->
            [cur EXCEPT !.keywords =
                Append(@, [major_topic |-> YN(n, "MajorTopicYN"),
                           keyword |-> unwrap_or(n.text, <<>>)])]
      [] OTHER -> missing_tag_warning(cur, "KeywordList", n.tag)

\* KeywordList::new_from_xml
KeywordList_new_from_xml(node) ==
    LET init == [owner |-> Attribute(node, "Owner"), keywords |-> <<>>]
        loop[i \in 0..Len(node.kids)] ==
            IF i = 0 THEN init
            ELSE CHOOSE r \in {IF IsPanic(prev) THEN prev
                               ELSE KeywordList_arm(prev, node.kids[i]) :
                               prev \in {loop[i-1]}} : TRUE
    IN loop[Len(node.kids)]

Chemical_arm(cur, n) ==
    CASE n.tag = "RegistryNumber" -> [cur EXCEPT !.registry_number = TextOf(n)]
      [] n.tag = "NameOfSubstance" ->
            [cur EXCEPT !.name_of_substance = TextOf(n),
                        !.name_of_substance_ui = Attribute(n, "UI")]
      [] OTHER -> missing_tag_warning(cur, "Chemical", n.tag)

\* Chemical::new_from_xml
Chemical_new_from_xml(node) ==
    LET init == [registry_number |-> None, name_of_substance |-> None,
                 name_of_substance_ui |-> None]
        loop[i \in 0..Len(node.kids)] ==
            IF i = 0 THEN init
            ELSE CHOOSE r \in {IF IsPanic(prev) THEN prev
                               ELSE Chemical_arm(prev, node.kids[i]) :
                               prev \in {loop[i-1]}} : TRUE
    IN loop[Len(node.kids)]

\* A citation that starts with a reference count already there.
MedlineCitation_new_counted ==
    [pmid |-> 0, date_completed |-> None, date_revised |-> None,
     mesh_heading_list |-> <<>>, medline_journal_info |-> None, article |-> None,
     other_ids |-> <<>>, citation_subsets |-> <<>>, gene_symbol_list |-> <<>>,
     keyword_lists |-> <<>>, chemical_list |-> <<>>, investigator_list |-> <<>>,
     coi_statement |-> None, number_of_references |-> Some(<<"0">>)]

\* MedlineCitation::new
MedlineCitation_new ==
    [pmid |-> 0, date_completed |-> None, date_revised |-> None,
     mesh_heading_list |-> <<>>, medline_journal_info |-> None, article |-> None,
     other_ids |-> <<>>, citation_subsets |-> <<>>, gene_symbol_list |-> <<>>,
     keyword_lists |-> <<>>, chemical_list |-> <<>>, investigator_list |-> <<>>,
     coi_statement |-> None, number_of_references |-> None]

chemical_list_arm(self, n) ==
    CASE n.tag = "Chemical" -> Push(self, "chemical_list", Chemical_new_from_xml(n))
      [] OTHER -> missing_tag_warning(self, "MedlineCitation::ChemicalList", n.tag)

\* MedlineCitation::chemical_list(&mut self, node)
chemical_list(self, node) ==
    LET loop[i \in 0..Len(node.kids)] ==
            IF i = 0 THEN self
            ELSE CHOOSE r \in {IF IsPanic(prev) THEN prev
                               ELSE chemical_list_arm(prev, node.kids[i]) :
                               prev \in {loop[i-1]}} : TRUE
    IN loop[Len(node.kids)]

investigator_list_arm(self, n) ==
    CASE n.tag = "Investigator" -> Push(self, "investigator_list", Author_new_from_xml(n))
      [] OTHER -> missing_tag_warning(self, "MedlineCitation::InvestigatorList", n.tag)

\* MedlineCitation::investigator_list(&mut self, node)
investigator_list(self, node) ==
    LET loop[i \in 0..Len(node.kids)] ==
            IF i = 0 THEN self
            ELSE CHOOSE r \in {IF IsPanic(prev) THEN prev
                               ELSE investigator_list_arm(prev, node.kids[i]) :
                               prev \in {loop[i-1]}} : TRUE
    IN loop[Len(node.kids)]

gene_symbol_list_arm(self, n) ==
    CASE n.tag = "GeneSymbol" ->
            [self EXCEPT !.gene_symbol_list = Append(@, unwrap_or(n.text, <<>>))]
      [] OTHER -> missing_tag_warning(self, "MedlineCitation::GeneSymbolList", n.tag)

\* MedlineCitation::gene_symbol_list(&mut self, node)
gene_symbol_list(self, node) ==
    LET loop[i \in 0..Len(node.kids)] ==
            IF i = 0 THEN self
            ELSE CHOOSE r \in {IF IsPanic(prev) THEN prev
                               ELSE gene_symbol_list_arm(prev, node.kids[i]) :
                               prev \in {loop[i-1]}} : TRUE
    IN loop[Len(node.kids)]

MedlineCitation_arm(cur, n) ==
    CASE n.tag = "PMID" ->
            IF IsSome(n.text)
            THEN [cur EXCEPT !.pmid = unwrap_or(parse_u64(Unwrap(n.text)), 0)]
            ELSE cur
      [] n.tag = "CoiStatement" -> [cur EXCEPT !.coi_statement = TextOf(n)]
      [] n.tag = "NumberOfReferences" -> [cur EXCEPT !.number_of_references = TextOf(n)]
      [] n.tag = "KeywordList" -> Push(cur, "keyword_lists", KeywordList_new_from_xml(n))
      [] n.tag = "ChemicalList" -> chemical_list(cur, n)
      [] n.tag = "GeneSymbolList" -> gene_symbol_list(cur, n)
      [] n.tag = "InvestigatorList" -> investigator_list(cur, n)
      [] n.tag = "OtherID" ->
            [cur EXCEPT !.other_ids =
                Append(@, [source |-> Attribute(n, "Source"), id |-> TextOf(n)])]
      [] n.tag = "CitationSubset" ->
            IF IsSome(n.text)
            THEN [cur EXCEPT !.citation_subsets = Append(@, Unwrap(n.text))]
            ELSE cur
      [] n.tag = "DateCompleted" -> SetOpt(cur, "date_completed", PubMedDate_new_from_xml(n))
      [] n.tag = "DateRevised" -> SetOpt(cur, "date_revised", PubMedDate_new_from_xml(n))
      [] n.tag = "Article" -> SetSome(cur, "article", Article_new_from_xml(n))
      [] n.tag = "MedlineJournalInfo" -> SetSome(cur, "medline_journal_info", MedlineJournalInfo_new_from_xml(n))
      [] n.tag = "MeshHeadingList" ->
            LET hs == SelectSeq(WithTag(Descendants(n), "MeshHeading"),
                                LAMBDA h : IsSome(MeshHeading_new_from_xml(h)))
            IN [cur EXCEPT !.mesh_heading_list =
                    [i \in 1..Len(hs) |-> Unwrap(MeshHeading_new_from_xml(hs[i]))]]
      [] n.tag \in {"PersonalNameSubjectList", "GeneralNote", "OtherAbstract",
                    "SupplMeshList", "CommentsCorrectionsList"} -> cur
      [] OTHER -> missing_tag_warning(cur, "MedlineCitation", n.tag)

\* MedlineCitation::new_from_xml
MedlineCitation_new_from_xml(node) ==
    LET loop[i \in 0..Len(node.kids)] ==
            IF i = 0 THEN MedlineCitation_new
            ELSE CHOOSE r \in {IF IsPanic(prev) THEN prev
                               ELSE MedlineCitation_arm(prev, node.kids[i]) :
                               prev \in {loop[i-1]}} : TRUE
    IN loop[Len(node.kids)]

-----------------------------------------------------------------------------
(* PubmedData and what it owns *)

ArticleIdList_arm(cur, n) ==
    CASE n.tag = "ArticleId" ->
            [cur EXCEPT !.ids =
                Append(@, [id_type |-> Attribute(n, "IdType"), id |-> TextOf(n)])]
      [] OTHER -> missing_tag_warning(cur, "ArticleIdList", n.tag)

\* ArticleIdList::new_from_xml
ArticleIdList_new_from_xml(node) ==
    LET loop[i \in 0..Len(node.kids)] ==
            IF i = 0 THEN [ids |-> <<>>]
            ELSE CHOOSE r \in {IF IsPanic(prev) THEN prev
                               ELSE ArticleIdList_arm(prev, node.kids[i]) :
                               prev \in {loop[i-1]}} : TRUE
    IN loop[Len(node.kids)]

Reference_arm(cur, n) ==
    CASE n.tag = "Citation" -> [cur EXCEPT !.citation = TextOf(n)]
      [] n.tag = "ArticleIdList" -> SetSome(cur, "article_ids", ArticleIdList_new_from_xml(n))
      [] OTHER -> missing_tag_warning(cur, "Reference", n.tag)

\* Reference::new_from_xml
Reference_new_from_xml(node) ==
    LET loop[i \in 0..Len(node.kids)] ==
            IF i = 0 THEN [citation |-> None, article_ids |-> None]
            ELSE CHOOSE r \in {IF IsPanic(prev) THEN prev
                               ELSE Reference_arm(prev, node.kids[i]) :
                               prev \in {loop[i-1]}} : TRUE
    IN loop[Len(node.kids)]

add_history_from_xml_arm(self, n) ==
    CASE n.tag = "PubMedPubDate" -> PushOpt(self, "history", PubMedDate_new_from_xml(n))
      [] OTHER -> missing_tag_warning(self, "PubmedData::add_history_from_xml", n.tag)

\* PubmedData::add_history_from_xml(&mut self, node)
add_history_from_xml(self, node) ==
    LET loop[i \in 0..Len(node.kids)] ==
            IF i = 0 THEN self
            ELSE CHOOSE r \in {IF IsPanic(prev) THEN prev
                               ELSE add_history_from_xml_arm(prev, node.kids[i]) :
                               prev \in {loop[i-1]}} : TRUE
    IN loop[Len(node.kids)]

\* The default arm prints to stdout with println! and goes on, in every build;
\* it does not call missing_tag_warning.
add_references_from_xml_arm(self, n) ==
    CASE n.tag = "Reference" -> Push(self, "references", Reference_new_from_xml(n))
      [] OTHER -> self

\* PubmedData::add_references_from_xml(&mut self, node)
add_references_from_xml(self, node) ==
    LET loop[i \in 0..Len(node.kids)] ==
            IF i = 0 THEN self
            ELSE CHOOSE r \in {IF IsPanic(prev) THEN prev
                               ELSE add_references_from_xml_arm(prev, node.kids[i]) :
                               prev \in {loop[i-1]}} : TRUE
    IN loop[Len(node.kids)]

PubmedData_arm(cur, n) ==
    CASE n.tag = "ReferenceList" -> add_references_from_xml(cur, n)
      [] n.tag = "ArticleIdList" -> SetSome(cur, "article_ids", ArticleIdList_new_from_xml(n))
      [] n.tag = "PublicationStatus" -> [cur EXCEPT !.publication_status = TextOf(n)]
      [] n.tag = "History" -> add_history_from_xml(cur, n)
      [] OTHER -> missing_tag_warning(cur, "PubmedData", n.tag)

\* PubmedData::new_from_xml
PubmedData_new_from_xml(node) ==
    LET init == [article_ids |-> None, history |-> <<>>, references |-> <<>>,
                 publication_status |-> None]
        loop[i \in 0..Len(node.kids)] ==
            IF i = 0 THEN init
            ELSE CHOOSE r \in {IF IsPanic(prev) THEN prev
                               ELSE PubmedData_arm(prev, node.kids[i]) :
                               prev \in {loop[i-1]}} : TRUE
    IN loop[Len(node.kids)]

-----------------------------------------------------------------------------
(* PubmedArticle *)

PubmedArticle_arm(cur, n) ==
    CASE n.tag = "MedlineCitation" -> SetSome(cur, "medline_citation", MedlineCitation_new_from_xml(n))
      [] n.tag = "PubmedData" -> SetSome(cur, "pubmed_data", PubmedData_new_from_xml(n))
      [] OTHER -> missing_tag_warning(cur, "PubmedArticle", n.tag)

\* PubmedArticle::new_from_xml
PubmedArticle_new_from_xml(root) ==
    LET init == [medline_citation |-> None, pubmed_data |-> None]
        loop[i \in 0..Len(root.kids)] ==
            IF i = 0 THEN init
            ELSE CHOOSE r \in {IF IsPanic(prev) THEN prev
                               ELSE PubmedArticle_arm(prev, root.kids[i]) :
                               prev \in {loop[i-1]}} : TRUE
    IN loop[Len(root.kids)]

-----------------------------------------------------------------------------
(* XML text and roxmltree::Document::parse *)

\* The response text as its sequence of markup tokens.
OpenTok(tag, attr) == [k |-> "open", tag |-> tag, attr |-> attr, s |-> <<>>]
CloseTok(tag) == [k |-> "close", tag |-> tag, attr |-> {}, s |-> <<>>]
TextTok(s) == [k |-> "text", tag |-> "", attr |-> {}, s |-> s]

\* Document::parse on the content of an element, from token i on: the element
\* children up to the first token that is no content (a close tag or the end).
\* An element is an open tag, its content and the close tag of the same name.
RECURSIVE ParseContent(_, _)
ParseContent(toks, i) ==
    IF i > Len(toks) \/ toks[i].k = "close"
    THEN [ok |-> TRUE, kids |-> <<>>, pos |-> i]
    ELSE IF toks[i].k = "text" THEN ParseContent(toks, i + 1)
    ELSE LET first == IF i + 1 <= Len(toks) /\ toks[i + 1].k = "text"
                      THEN Some(toks[i + 1].s) ELSE None
             Closed(inner) == /\ inner.ok
                              /\ inner.pos <= Len(toks)
                              /\ toks[inner.pos].tag = toks[i].tag
             Join(inner, rest) ==
                 [ok |-> rest.ok,
                  kids |-> <<Elem(toks[i].tag, toks[i].attr, first, inner.kids)>> \o rest.kids,
                  pos |-> rest.pos]
         IN CHOOSE r \in
                {IF ~Closed(inner) THEN [ok |-> FALSE, kids |-> <<>>, pos |-> i]
                 ELSE CHOOSE q \in {Join(inner, rest) :
                                     rest \in {ParseContent(toks, inner.pos + 1)}} : TRUE :
                 inner \in {ParseContent(toks, i + 1)}} : TRUE

\* Document::parse: Ok(document) for a text with exactly one root element and
\* matching tags, Err otherwise. The document's root node is no element; it
\* holds the root element.
Document_parse(toks) ==
    CHOOSE d \in {IF c.ok /\ c.pos = Len(toks) + 1 /\ Len(c.kids) = 1
                  THEN Some(Elem("", {}, None, c.kids))
                  ELSE None : c \in {ParseContent(toks, 1)}} : TRUE

\* A collect() that looks for records among the children of the root element
\* only.
articles_collect_children(document) ==
    LET ns == WithTag(document.kids[1].kids, "PubmedArticle")
        loop[i \in 0..Len(ns)] ==
            IF i = 0 THEN [ok |-> <<>>]
            ELSE CHOOSE r \in {IF IsPanic(prev) THEN prev
                               ELSE Push(prev, "ok", PubmedArticle_new_from_xml(ns[i])) :
                               prev \in {loop[i-1]}} : TRUE
    IN loop[Len(ns)]

\* The collect() of Client::articles: one PubmedArticle::new_from_xml per
\* PubmedArticle element among the descendants of the document root.
articles_collect(document) ==
    LET ns == WithTag(Descendants(document), "PubmedArticle")
        loop[i \in 0..Len(ns)] ==
            IF i = 0 THEN [ok |-> <<>>]
            ELSE CHOOSE r \in {IF IsPanic(prev) THEN prev
                               ELSE Push(prev, "ok", PubmedArticle_new_from_xml(ns[i])) :
                               prev \in {loop[i-1]}} : TRUE
    IN loop[Len(ns)]


-----------------------------------------------------------------------------
(* Inputs: the elements the decoders are called with *)

\* Most children an element is given, and the longest free Month text.
MaxKids == 2
MaxTextLen == 3

SeqsUpTo(S, n) == UNION {[1..k -> S] : k \in 0..n}

ta == <<"a">>
tb == <<"b">>
tz == <<"z">>
Leaf(tag, s) == Elem(tag, {}, Some(s), <<>>)
Bare(tag) == Elem(tag, {}, None, <<>>)
\* An element no decoder recognizes, holding `kids`.
Unknown(kids) == Elem("NewElement", {}, None, kids)
YNAttrs(a) == {{}, {<<a, <<"Y">>>>}, {<<a, <<"N">>>>}, {<<a, <<"y">>>>}, {<<a, <<>>>>}}
WithKids(tag, attrs, S) ==
    {Elem(tag, a, None, ks) : a \in attrs, ks \in SeqsUpTo(S, MaxKids)}

\* Date elements: each of Year, Month, Day, Hour, Minute absent or present
\* with one of a few texts, in schema order, then possibly one more child.
YearKids == {<<>>, <<Leaf("Year", <<"2","0","1","2">>)>>, <<Leaf("Year", <<"1","9","6","1">>)>>,
             <<Leaf("Year", <<"0">>)>>, <<Leaf("Year", <<"x">>)>>, <<Bare("Year")>>}
MonthKids == {<<>>, <<Leaf("Month", <<"M","a","y">>)>>, <<Leaf("Month", <<"8">>)>>,
              <<Leaf("Month", <<"x">>)>>, <<Leaf("Month", <<"1","5">>)>>}
DayKids == {<<>>, <<Leaf("Day", <<"1","7">>)>>, <<Leaf("Day", <<"x">>)>>,
            <<Leaf("Day", <<"2","5","6">>)>>}
HourKids == {<<>>, <<Leaf("Hour", <<"3">>)>>, <<Leaf("Hour", <<"x">>)>>}
MinuteKids == {<<>>, <<Leaf("Minute", <<"7">>)>>, <<Leaf("Minute", <<"1","2","8">>)>>}
ExtraKids == {<<>>, <<Leaf("Season", <<"S","p","r","i","n","g">>)>>,
              <<Leaf("MedlineDate", <<"1","9","9","8"," ","D","e","c">>)>>,
              <<Unknown(<<Leaf("Year", <<"2","0","0","0">>)>>)>>,
              <<Leaf("Year", <<"1","9","9","9">>)>>}
DateKids ==
    {y \o m \o d \o h \o mi \o x :
        y \in YearKids, m \in MonthKids, d \in DayKids, h \in HourKids,
        mi \in MinuteKids, x \in ExtraKids}
DateInputs == {Elem("PubDate", {}, None, ks) : ks \in DateKids}

\* Month elements: every case variant of the twelve abbreviations, every
\* text of at most MaxTextLen characters over MonthChars, and no text.
UpperChar(c) ==
    CASE c = "a" -> "A" [] c = "b" -> "B" [] c = "c" -> "C" [] c = "d" -> "D"
      [] c = "e" -> "E" [] c = "f" -> "F" [] c = "g" -> "G" [] c = "j" -> "J"
      [] c = "l" -> "L" [] c = "m" -> "M" [] c = "n" -> "N" [] c = "o" -> "O"
      [] c = "p" -> "P" [] c = "r" -> "R" [] c = "s" -> "S" [] c = "t" -> "T"
      [] c = "u" -> "U" [] c = "v" -> "V" [] c = "y" -> "Y"
      [] OTHER -> c
MonthCaseVariants ==
    {[i \in 1..3 |-> IF up[i] THEN UpperChar(MonthNames[m][i]) ELSE MonthNames[m][i]] :
        m \in 1..12, up \in [1..3 -> BOOLEAN]}
MonthChars == {"0", "1", "2", "5", "6", "+", "-", " ", "y"}
MonthTexts ==
    {None} \cup {Some(t) : t \in MonthCaseVariants}
           \cup {Some(t) : t \in SeqsUpTo(MonthChars, MaxTextLen) \ {<<>>}}
MonthInputs == {Elem("Month", {}, t, <<>>) : t \in MonthTexts}

\* A few whole dates, as children of the entities that own dates.
DateFull(tag) ==
    Elem(tag, {}, None, <<Leaf("Year", <<"2","0","1","2">>), Leaf("Month", <<"8">>),
                          Leaf("Day", <<"1","7">>)>>)
DateYearMonth(tag) ==
    Elem(tag, {}, None, <<Leaf("Year", <<"1","9","6","1">>), Leaf("Month", <<"M","a","y">>)>>)
DateNoYear(tag) ==
    Elem(tag, {}, None, <<Leaf("Month", <<"8">>), Leaf("Day", <<"1","7">>)>>)
DateUnknown(tag) ==
    Elem(tag, {}, None, <<Leaf("Year", <<"2","0","1","2">>), Unknown(<<>>)>>)

AffiliationInfoKids ==
    {Leaf("Affiliation", ta), Leaf("Affiliation", tb),
     Elem("Identifier", {<<"Source", <<"O","R","C","I","D">>>>}, Some(ta), <<>>),
     Unknown(<<Leaf("Affiliation", tz)>>)}
AffiliationInfoInputs == WithKids("AffiliationInfo", {{}}, AffiliationInfoKids)

AuthorKids ==
    {Leaf("LastName", ta), Leaf("LastName", tb), Bare("LastName"), Leaf("ForeName", ta),
     Leaf("CollectiveName", ta), Leaf("Initials", ta), Leaf("Suffix", ta),
     Elem("Identifier", {<<"Source", <<"O","R","C","I","D">>>>}, Some(ta), <<>>),
     Elem("AffiliationInfo", {}, None, <<Leaf("Affiliation", ta)>>),
     Elem("AffiliationInfo", {}, None, <<Unknown(<<>>)>>),
     Unknown(<<Leaf("LastName", tz)>>)}
\* Every child sequence without the attribute and with "Y"; every value of
\* the attribute with a few children.
AuthorInputs ==
    WithKids("Author", {{}, {<<"ValidYN", <<"Y">>>>}}, AuthorKids)
        \cup WithKids("Author", YNAttrs("ValidYN"),
                      {Leaf("LastName", ta), Leaf("ForeName", ta), Unknown(<<>>)})

AuthorA == Elem("Author", {<<"ValidYN", <<"Y">>>>}, None, <<Leaf("LastName", ta)>>)
AuthorB == Elem("Author", {}, None, <<Leaf("CollectiveName", tb)>>)
AuthorBad == Elem("Author", {}, None, <<Leaf("LastName", ta), Unknown(<<>>)>>)
AuthorListKids == {AuthorA, AuthorB, AuthorBad, Unknown(<<AuthorB>>), Unknown(<<>>)}
AuthorListInputs == WithKids("AuthorList", YNAttrs("CompleteYN"), AuthorListKids)

JournalIssueKids ==
    {DateYearMonth("PubDate"), DateFull("PubDate"), DateNoYear("PubDate"),
     DateUnknown("PubDate"), Leaf("Volume", ta), Leaf("Volume", tb), Leaf("Issue", ta),
     Unknown(<<Leaf("Volume", tz)>>)}
JournalIssueInputs ==
    WithKids("JournalIssue", {{}, {<<"CitedMedium", <<"P","r","i","n","t">>>>}}, JournalIssueKids)

JournalIssueA == Elem("JournalIssue", {}, None, <<Leaf("Volume", ta), DateYearMonth("PubDate")>>)
JournalIssueBad == Elem("JournalIssue", {}, None, <<Unknown(<<>>)>>)
JournalKids ==
    {Elem("ISSN", {<<"IssnType", <<"P","r","i","n","t">>>>}, Some(ta), <<>>), Leaf("ISSN", tb),
     JournalIssueA, JournalIssueBad, Leaf("Title", ta), Leaf("Title", tb),
     Leaf("ISOAbbreviation", ta), Unknown(<<Leaf("Title", tz)>>)}
JournalInputs == WithKids("Journal", {{}}, JournalKids)

GrantKids ==
    {Leaf("GrantID", ta), Leaf("GrantID", tb), Leaf("Agency", ta), Leaf("Country", ta),
     Leaf("Acronym", ta), Unknown(<<Leaf("GrantID", tz)>>)}
GrantInputs == WithKids("Grant", {{}}, GrantKids)

GrantA == Elem("Grant", {}, None, <<Leaf("GrantID", ta)>>)
GrantB == Elem("Grant", {}, None, <<Leaf("Agency", tb)>>)
GrantBad == Elem("Grant", {}, None, <<Unknown(<<>>)>>)
GrantListKids == {GrantA, GrantB, GrantBad, Unknown(<<GrantB>>), Unknown(<<>>)}
GrantListInputs == WithKids("GrantList", YNAttrs("CompleteYN"), GrantListKids)

AbstractKids ==
    {Leaf("AbstractText", ta), Leaf("AbstractText", tb), Bare("AbstractText"),
     Leaf("CopyrightInformation", tz),
     Elem("Section", {}, None, <<Leaf("AbstractText", tz)>>)}
AbstractInputs == WithKids("Abstract", {{}}, AbstractKids)

AbstractA == Elem("Abstract", {}, None, <<Leaf("AbstractText", ta), Leaf("AbstractText", tb)>>)
AuthorListA == Elem("AuthorList", {<<"CompleteYN", <<"Y">>>>}, None, <<AuthorA, AuthorB>>)
AuthorListBad == Elem("AuthorList", {}, None, <<AuthorBad>>)
GrantListA == Elem("GrantList", {}, None, <<GrantA>>)
JournalA == Elem("Journal", {}, None, <<Leaf("Title", ta), JournalIssueA>>)
JournalBad == Elem("Journal", {}, None, <<JournalIssueBad>>)
PublicationTypeA == Elem("PublicationType", {<<"UI", <<"D","1">>>>}, Some(ta), <<>>)
PublicationTypeB == Elem("PublicationType", {}, Some(tb), <<>>)
ArticleKids ==
    {Leaf("ArticleTitle", ta), Leaf("ArticleTitle", tb), JournalA, JournalBad,
     Elem("Pagination", {}, None, <<Leaf("MedlinePgn", ta), Bare("MedlinePgn")>>),
     Elem("Pagination", {}, None, <<Leaf("MedlinePgn", tb), Unknown(<<>>)>>),
     Elem("ELocationID", {<<"EIdType", <<"d","o","i">>>>, <<"ValidYN", <<"Y">>>>}, Some(ta), <<>>),
     Elem("ELocationID", {<<"ValidYN", <<"y">>>>}, Some(tb), <<>>), AbstractA, AuthorListA, AuthorListBad,
     Leaf("Language", ta), Leaf("VernacularTitle", ta), GrantListA,
     DateFull("ArticleDate"), DateNoYear("ArticleDate"),
     Elem("PublicationTypeList", {}, None, <<PublicationTypeA>>),
     Elem("PublicationTypeList", {}, None, <<PublicationTypeB, Unknown(<<PublicationTypeA>>)>>),
     Bare("DataBankList"), Unknown(<<Leaf("ArticleTitle", tz)>>)}
ArticleInputs ==
    WithKids("Article", {{}}, ArticleKids)
        \cup WithKids("Article", {{<<"PubModel", <<"P","r","i","n","t">>>>}},
                      {Leaf("ArticleTitle", ta), JournalA, AbstractA, Unknown(<<>>)})

MedlineJournalInfoKids ==
    {Leaf("Country", ta), Leaf("Country", tb), Leaf("MedlineTA", ta),
     Leaf("NlmUniqueID", ta), Leaf("ISSNLinking", ta), Unknown(<<Leaf("Country", tz)>>)}
MedlineJournalInfoInputs == WithKids("MedlineJournalInfo", {{}}, MedlineJournalInfoKids)

KeywordListKids ==
    {Elem("Keyword", {<<"MajorTopicYN", <<"Y">>>>}, Some(ta), <<>>),
     Elem("Keyword", {<<"MajorTopicYN", <<"y">>>>}, Some(tb), <<>>),
     Elem("Keyword", {<<"MajorTopicYN", <<"N">>>>}, Some(tb), <<>>),
     Elem("Keyword", {<<"MajorTopicYN", <<>>>>}, Some(tz), <<>>),
     Bare("Keyword"), Unknown(<<Leaf("Keyword", tz)>>)}
KeywordListInputs ==
    WithKids("KeywordList", {{}, {<<"Owner", <<"N","L","M">>>>}}, KeywordListKids)

ChemicalKids ==
    {Leaf("RegistryNumber", ta), Leaf("RegistryNumber", tb),
     Elem("NameOfSubstance", {<<"UI", <<"D","1">>>>}, Some(ta), <<>>),
     Leaf("NameOfSubstance", tb), Unknown(<<Leaf("RegistryNumber", tz)>>)}
ChemicalInputs == WithKids("Chemical", {{}}, ChemicalKids)

MeshHeadingA ==
    Elem("MeshHeading", {}, None,
         <<Elem("DescriptorName", {<<"UI", <<"D","1">>>>, <<"MajorTopicYN", <<"Y">>>>}, Some(ta), <<>>),
           Elem("QualifierName", {<<"UI", <<"Q","1">>>>}, Some(ta), <<>>),
           Elem("QualifierName", {<<"UI", <<"Q","2">>>>, <<"MajorTopicYN", <<"N">>>>}, Some(tb), <<>>)>>)
MeshHeadingB ==
    Elem("MeshHeading", {}, None, <<Elem("DescriptorName", {<<"UI", <<"D","2">>>>}, Some(tb), <<>>)>>)
MeshHeadingNoDescriptor ==
    Elem("MeshHeading", {}, None, <<Elem("QualifierName", {<<"UI", <<"Q","1">>>>}, Some(ta), <<>>)>>)

ChemicalA == Elem("Chemical", {}, None, <<Leaf("RegistryNumber", ta)>>)
ChemicalBad == Elem("Chemical", {}, None, <<Unknown(<<>>)>>)
InvestigatorA == Elem("Investigator", {<<"ValidYN", <<"Y">>>>}, None, <<Leaf("LastName", ta)>>)
ArticleA == Elem("Article", {}, None, <<Leaf("ArticleTitle", ta), JournalA, DateFull("ArticleDate")>>)
ArticleBad == Elem("Article", {}, None, <<Leaf("ArticleTitle", ta), Unknown(<<>>)>>)
MedlineCitationKids ==
    {Leaf("PMID", <<"2","2","7">>), Leaf("PMID", <<"5">>), Leaf("PMID", <<"x">>), Bare("PMID"),
     Leaf("CoiStatement", ta), Leaf("NumberOfReferences", <<"7">>),
     Elem("KeywordList", {}, None, <<Leaf("Keyword", ta)>>),
     Elem("ChemicalList", {}, None, <<ChemicalA, Unknown(<<ChemicalA>>)>>),
     Elem("GeneSymbolList", {}, None, <<Leaf("GeneSymbol", ta), Bare("GeneSymbol")>>),
     Elem("GeneSymbolList", {}, None, <<Unknown(<<>>)>>),
     Elem("InvestigatorList", {}, None, <<Unknown(<<>>), InvestigatorA>>),
     Elem("OtherID", {<<"Source", <<"N","L","M">>>>}, Some(ta), <<>>),
     Leaf("CitationSubset", ta),
     DateFull("DateCompleted"), DateNoYear("DateCompleted"), DateYearMonth("DateRevised"),
     ArticleA, ArticleBad,
     Elem("MedlineJournalInfo", {}, None, <<Leaf("Country", ta)>>),
     Elem("MeshHeadingList", {}, None, <<MeshHeadingA, MeshHeadingNoDescriptor>>),
     Elem("MeshHeadingList", {}, None, <<MeshHeadingB>>),
     Bare("PersonalNameSubjectList"), Bare("CommentsCorrectionsList"),
     Unknown(<<Leaf("PMID", <<"9">>)>>)}
\* MeshHeadingList elements: headings with and without descriptor, a
\* descriptor below an element of another name, a heading below an element of
\* another name, a heading with two descriptors.
MeshHeadingDeep ==
    Elem("MeshHeading", {}, None,
         <<Unknown(<<Elem("DescriptorName", {<<"UI", <<"D","3">>>>, <<"MajorTopicYN", <<"y">>>>},
                          Some(tz), <<>>)>>),
           Elem("QualifierName", {<<"MajorTopicYN", <<"Y">>>>}, None, <<>>)>>)
MeshHeadingTwo ==
    Elem("MeshHeading", {}, None,
         <<Elem("DescriptorName", {<<"UI", <<"D","1">>>>, <<"MajorTopicYN", <<>>>>}, Some(ta), <<>>),
           Elem("DescriptorName", {<<"UI", <<"D","2">>>>, <<"MajorTopicYN", <<"Y">>>>}, Some(tb), <<>>)>>)
MeshHeadingKids ==
    {MeshHeadingA, MeshHeadingB, MeshHeadingNoDescriptor, MeshHeadingDeep, MeshHeadingTwo,
     Unknown(<<MeshHeadingB>>)}
MeshHeadingListInputs == WithKids("MeshHeadingList", {{}}, MeshHeadingKids)
MedlineCitationInputs ==
    WithKids("MedlineCitation", {{}}, MedlineCitationKids)
        \cup {Elem("MedlineCitation", {}, None, <<m>>) : m \in MeshHeadingListInputs}

ArticleIdListKids ==
    {Elem("ArticleId", {<<"IdType", <<"d","o","i">>>>}, Some(ta), <<>>), Leaf("ArticleId", tb),
     Unknown(<<Leaf("ArticleId", tz)>>)}
ArticleIdListInputs == WithKids("ArticleIdList", {{}}, ArticleIdListKids)

ArticleIdListA == Elem("ArticleIdList", {}, None, <<Leaf("ArticleId", ta)>>)
ArticleIdListBad == Elem("ArticleIdList", {}, None, <<Unknown(<<>>)>>)
ReferenceKids ==
    {Leaf("Citation", ta), Leaf("Citation", tb), ArticleIdListA, ArticleIdListBad,
     Unknown(<<Leaf("Citation", tz)>>)}
ReferenceInputs == WithKids("Reference", {{}}, ReferenceKids)

ReferenceA == Elem("Reference", {}, None, <<Leaf("Citation", ta)>>)
ReferenceBad == Elem("Reference", {}, None, <<Unknown(<<>>)>>)
PubmedDataKids ==
    {Elem("ReferenceList", {}, None, <<ReferenceA>>),
     Elem("ReferenceList", {}, None, <<Unknown(<<ReferenceA>>), ReferenceA>>),
     Elem("ReferenceList", {}, None, <<ReferenceBad>>),
     ArticleIdListA, ArticleIdListBad,
     Leaf("PublicationStatus", ta), Leaf("PublicationStatus", tb),
     Elem("History", {}, None, <<DateFull("PubMedPubDate")>>),
     Elem("History", {}, None, <<DateNoYear("PubMedPubDate"), DateYearMonth("PubMedPubDate")>>),
     Elem("History", {}, None, <<Unknown(<<>>)>>),
     Unknown(<<Leaf("PublicationStatus", tz)>>)}
PubmedDataInputs == WithKids("PubmedData", {{}}, PubmedDataKids)

MedlineCitationA == Elem("MedlineCitation", {}, None, <<Leaf("PMID", <<"1">>), DateFull("DateCompleted")>>)
MedlineCitationB == Elem("MedlineCitation", {}, None, <<Leaf("PMID", <<"2">>), ArticleA>>)
MedlineCitationBad == Elem("MedlineCitation", {}, None, <<Leaf("PMID", <<"3">>), Unknown(<<>>)>>)
PubmedDataA == Elem("PubmedData", {}, None, <<Leaf("PublicationStatus", ta)>>)
PubmedDataBad == Elem("PubmedData", {}, None, <<Unknown(<<>>)>>)
PubmedArticleKids ==
    {MedlineCitationA, MedlineCitationB, MedlineCitationBad, PubmedDataA, PubmedDataBad,
     Unknown(<<MedlineCitationA>>)}
PubmedArticleInputs == WithKids("PubmedArticle", {{}}, PubmedArticleKids)

\* Responses of the retrieval service: the serialized documents, texts that
\* are not well-formed, and a transport failure.
MaxRecords == 2

RECURSIVE Serialize(_), SerializeKids(_, _)
SerializeKids(kids, i) ==
    IF i > Len(kids) THEN <<>> ELSE Serialize(kids[i]) \o SerializeKids(kids, i + 1)
Serialize(node) ==
    <<OpenTok(node.tag, node.attr)>>
        \o (IF IsSome(node.text) THEN <<TextTok(Unwrap(node.text))>> ELSE <<>>)
        \o SerializeKids(node.kids, 1)
        \o <<CloseTok(node.tag)>>

RecordA == Elem("PubmedArticle", {}, None, <<MedlineCitationA, PubmedDataA>>)
RecordB == Elem("PubmedArticle", {}, None, <<MedlineCitationB>>)
RecordBad == Elem("PubmedArticle", {}, None, <<MedlineCitationBad>>)
RecordNested ==
    Elem("PubmedArticle", {}, None,
         <<Elem("MedlineCitation", {}, None, <<Leaf("PMID", <<"4">>), Unknown(<<RecordB>>)>>)>>)
\* A record with an unparseable PMID, a MeshHeading without descriptor and no
\* PubmedData.
RecordOdd ==
    Elem("PubmedArticle", {}, None,
         <<Elem("MedlineCitation", {}, None,
                <<Leaf("PMID", <<"x">>),
                  Elem("MeshHeadingList", {}, None, <<MeshHeadingNoDescriptor>>)>>)>>)
SetKids ==
    {RecordA, RecordB, RecordBad, RecordNested, RecordOdd, Bare("PubmedBookArticle"),
     Elem("DeleteCitation", {}, None, <<RecordA>>)}
Documents ==
    {Elem("PubmedArticleSet", {}, None, ks) : ks \in SeqsUpTo(SetKids, MaxRecords)}
        \cup {RecordA, Leaf("eFetchResult", <<"E","R","R","O","R">>)}
WellFormedTexts == {Serialize(d) : d \in Documents}
\* Not well-formed: the last close tag missing, a close tag of another name,
\* a close tag with no element open, no element at all.
BrokenTexts ==
    {SubSeq(t, 1, Len(t) - 1) : t \in WellFormedTexts}
        \cup {[t EXCEPT ![Len(t)] = CloseTok("Other")] : t \in WellFormedTexts}
        \cup {<<CloseTok("PubmedArticleSet")>> \o t : t \in WellFormedTexts}
        \cup {<<>>, <<TextTok(<<"E","R","R","O","R">>)>>}
Responses ==
    {[ok |-> TRUE, body |-> t] : t \in WellFormedTexts \cup BrokenTexts}
        \cup {[ok |-> FALSE, body |-> <<>>]}

-----------------------------------------------------------------------------
(* The calling thread: one call of a decoder at a time *)

Call(name, n, r) ==
    /\ pc' = IF IsPanic(r) THEN "panicked" ELSE "returned"
    /\ fn' = name
    /\ arg' = Some(n)
    /\ ret' = Some(r)
    /\ UNCHANGED <<strict, response, doc, ids, paced>>

Call_parse_month_from_xml ==
    /\ pc = "idle"
    /\ \E n \in MonthInputs : \E r \in {[val |-> parse_month_from_xml(n)]} : Call("parse_month_from_xml", n, r)
Call_PubMedDate ==
    /\ pc = "idle"
    /\ \E n \in DateInputs : \E r \in {PubMedDate_new_from_xml(n)} : Call("PubMedDate", n, r)
Call_AffiliationInfo ==
    /\ pc = "idle"
    /\ \E n \in AffiliationInfoInputs : \E r \in {AffiliationInfo_new_from_xml(n)} : Call("AffiliationInfo", n, r)
Call_Author ==
    /\ pc = "idle"
    /\ \E n \in AuthorInputs : \E r \in {Author_new_from_xml(n)} : Call("Author", n, r)
Call_AuthorList ==
    /\ pc = "idle"
    /\ \E n \in AuthorListInputs : \E r \in {AuthorList_new_from_xml(n)} : Call("AuthorList", n, r)
Call_JournalIssue ==
    /\ pc = "idle"
    /\ \E n \in JournalIssueInputs : \E r \in {JournalIssue_new_from_xml(n)} : Call("JournalIssue", n, r)
Call_Journal ==
    /\ pc = "idle"
    /\ \E n \in JournalInputs : \E r \in {Journal_new_from_xml(n)} : Call("Journal", n, r)
Call_Grant ==
    /\ pc = "idle"
    /\ \E n \in GrantInputs : \E r \in {Grant_new_from_xml(n)} : Call("Grant", n, r)
Call_GrantList ==
    /\ pc = "idle"
    /\ \E n \in GrantListInputs : \E r \in {GrantList_new_from_xml(n)} : Call("GrantList", n, r)
Call_Abstract ==
    /\ pc = "idle"
    /\ \E n \in AbstractInputs : \E r \in {Abstract_new_from_xml(n)} : Call("Abstract", n, r)
Call_Article ==
    /\ pc = "idle"
    /\ \E n \in ArticleInputs : \E r \in {Article_new_from_xml(n)} : Call("Article", n, r)
Call_MedlineJournalInfo ==
    /\ pc = "idle"
    /\ \E n \in MedlineJournalInfoInputs :
          \E r \in {MedlineJournalInfo_new_from_xml(n)} : Call("MedlineJournalInfo", n, r)
Call_KeywordList ==
    /\ pc = "idle"
    /\ \E n \in KeywordListInputs : \E r \in {KeywordList_new_from_xml(n)} : Call("KeywordList", n, r)
Call_Chemical ==
    /\ pc = "idle"
    /\ \E n \in ChemicalInputs : \E r \in {Chemical_new_from_xml(n)} : Call("Chemical", n, r)
Call_MedlineCitation ==
    /\ pc = "idle"
    /\ \E n \in MedlineCitationInputs : \E r \in {MedlineCitation_new_from_xml(n)} : Call("MedlineCitation", n, r)
Call_ArticleIdList ==
    /\ pc = "idle"
    /\ \E n \in ArticleIdListInputs : \E r \in {ArticleIdList_new_from_xml(n)} : Call("ArticleIdList", n, r)
Call_Reference ==
    /\ pc = "idle"
    /\ \E n \in ReferenceInputs : \E r \in {Reference_new_from_xml(n)} : Call("Reference", n, r)
Call_PubmedData ==
    /\ pc = "idle"
    /\ \E n \in PubmedDataInputs : \E r \in {PubmedData_new_from_xml(n)} : Call("PubmedData", n, r)
Call_PubmedArticle ==
    /\ pc = "idle"
    /\ \E n \in PubmedArticleInputs : \E r \in {PubmedArticle_new_from_xml(n)} : Call("PubmedArticle", n, r)

\* PubMedDate::precision, called on a date that new_from_xml has built.
Call_precision ==
    /\ pc = "idle"
    /\ \E n \in DateInputs : \E d \in {PubMedDate_new_from_xml(n)} :
          /\ ~IsPanic(d)
          /\ IsSome(d.opt)
          /\ pc' = "returned"
          /\ fn' = "precision"
          /\ arg' = d.opt
          /\ ret' = Some([val |-> precision(Unwrap(d.opt))])
          /\ UNCHANGED <<strict, response, doc, ids, paced>>

\* The caller takes the value; the thread is free for the next call.
Return ==
    /\ pc = "returned"
    /\ pc' = "idle"
    /\ fn' = "none"
    /\ arg' = None
    /\ ret' = None
    /\ response' = None
    /\ doc' = None
    /\ ids' = <<>>
    /\ UNCHANGED <<strict, paced>>

-----------------------------------------------------------------------------
(* Client::articles *)

\* The calls that retrieve records: Client::articles with a list of ids,
\* Client::article with one id (line 973: self.articles(&vec![id])).
ArticleIds == {22722859}
ClientCalls ==
    {[fn |-> "Client::articles", ids |-> l] : l \in {<<5, 22722859>>}}
        \cup {[fn |-> "Client::article", ids |-> <<id>>] : id \in ArticleIds}

\* Client::articles, line 951: the request is sent and the body read; a
\* transport failure returns Err through `?`, in Client::article too.
articles_get ==
    /\ pc = "idle"
    /\ \E c \in ClientCalls : \E r \in Responses :
          /\ response' = Some(r)
          /\ fn' = c.fn
          /\ ids' = c.ids
          /\ IF r.ok
             THEN pc' = "got" /\ ret' = None
             ELSE pc' = "returned" /\ ret' = Some([err |-> "transport"])
    /\ paced' = FALSE
    /\ UNCHANGED <<strict, arg, doc>>

\* A parse step that takes a text that is not well-formed for a document
\* without elements.
articles_parse_lenient ==
    /\ pc = "got"
    /\ \E d \in {Document_parse(Unwrap(response).body)} :
          /\ pc' = "parsed"
          /\ doc' = IF IsSome(d) THEN d ELSE Some(Elem("", {}, None, <<>>))
          /\ ret' = None
    /\ UNCHANGED <<strict, fn, arg, response, ids, paced>>

\* Client::articles, line 952: Document::parse(&text)?
articles_parse ==
    /\ pc = "got"
    /\ \E d \in {Document_parse(Unwrap(response).body)} :
          IF IsSome(d)
          THEN pc' = "parsed" /\ doc' = d /\ ret' = None
          ELSE pc' = "returned" /\ doc' = None /\ ret' = Some([err |-> "xml"])
    /\ UNCHANGED <<strict, fn, arg, response, ids, paced>>

\* Client::articles, line 953: thread::sleep(self.get_sleep_time())
articles_sleep ==
    /\ pc = "parsed"
    /\ pc' = "slept"
    /\ paced' = TRUE
    /\ UNCHANGED <<strict, fn, arg, ret, response, doc, ids>>

\* Client::articles, lines 954-959; in Client::article the list goes on to
\* the pop of line 973.
articles_decode ==
    /\ pc = "slept"
    /\ \E r \in {articles_collect(Unwrap(doc))} :
          /\ ret' = Some(r)
          /\ pc' = IF IsPanic(r) THEN "panicked"
                   ELSE IF fn = "Client::article" THEN "collected"
                   ELSE "returned"
    /\ UNCHANGED <<strict, fn, arg, response, doc, ids, paced>>

\* The first of the records, or the error that names the id.
article_pop_first(records, id) ==
    IF records = <<>> THEN [err |-> "Can't find PubmedArticle for ID", id |-> id]
    ELSE [ok |-> records[1]]

\* Client::article, lines 973-979: match self.articles(..)?.pop()
article_pop(records, id) ==
    IF records = <<>> THEN [err |-> "Can't find PubmedArticle for ID", id |-> id]
    ELSE [ok |-> records[Len(records)]]

\* Client::article, lines 973-979, on the list Client::articles returned
article_match ==
    /\ pc = "collected"
    /\ ret' = Some(article_pop(Unwrap(ret).ok, ids[1]))
    /\ pc' = "returned"
    /\ UNCHANGED <<strict, fn, arg, response, doc, ids, paced>>

-----------------------------------------------------------------------------
(* Client::article_ids_from_query *)

\* serde_json::Value
JNull == [j |-> "null"]
JString(t) == [j |-> "string", s |-> t]
JNumber(n) == [j |-> "number", n |-> n]
JArray(l) == [j |-> "array", a |-> l]
JObject(f) == [j |-> "object", o |-> f]

\* value[key]: Null unless the value is an object that has the key
Index(value, key) ==
    IF value.j = "object" /\ key \in DOMAIN value.o THEN value.o[key] ELSE JNull
\* Value::as_array
as_array(value) == IF value.j = "array" THEN Some(value.a) ELSE None
\* Value::as_str
as_str(value) == IF value.j = "string" THEN Some(value.s) ELSE None

\* The closure of the map, lines 926-938
article_id_of(id) ==
    IF IsSome(as_str(id)) THEN unwrap_or(parse_u64(Unwrap(as_str(id))), 0) ELSE 0

\* The ids of every entry, the zeros kept.
article_ids_collect_all(idlist) == [i \in 1..Len(idlist) |-> article_id_of(idlist[i])]

\* idlist.iter().map(..).filter(|id| *id != 0).collect()
article_ids_collect(idlist) ==
    SelectSeq([i \in 1..Len(idlist) |-> article_id_of(idlist[i])], LAMBDA u : u # 0)

\* Client::article_ids_from_query on the response r to its request
article_ids_from_query(r) ==
    IF ~r.ok THEN [err |-> "transport"]
    ELSE IF IsNone(r.json) THEN [err |-> "json"]
    ELSE LET idlist == as_array(Index(Index(Unwrap(r.json), "esearchresult"), "idlist"))
         IN IF IsSome(idlist) THEN [ok |-> article_ids_collect(Unwrap(idlist))]
            ELSE [err |-> "API error/no results"]

\* Responses to a query: the entries of an idlist, idlists of up to MaxIds
\* entries, bodies without an idlist array, a body that is not JSON, and a
\* failed request.
MaxIds == 3
IdEntries ==
    {JString(<<"2","2","7","2","2","8","5","9">>), JString(<<"5">>), JString(<<"0">>),
     JString(<<"x">>), JString(<<"+","7">>),
     JString(<<"9","9","9","9","9","9","9","9","9">>), JNumber(5)}
SearchResult(idlist) ==
    JObject([k \in {"header", "esearchresult"} |->
               IF k = "header" THEN JObject([t \in {"type"} |-> JString(<<"e">>)])
               ELSE JObject([t \in {"count", "idlist"} |->
                               IF t = "count" THEN JString(<<"1">>) ELSE idlist])])
JsonBodies ==
    {SearchResult(JArray(l)) : l \in SeqsUpTo(IdEntries, MaxIds)}
        \cup {SearchResult(JString(<<"5">>)), SearchResult(JNull),
              JObject([k \in {"esearchresult"} |->
                         JObject([t \in {"ERROR"} |-> JString(<<"x">>)])]),
              JObject([k \in {"error"} |-> JString(<<"x">>)]),
              JArray(<<JString(<<"5">>)>>), JNull}
QueryResponses ==
    {[ok |-> TRUE, json |-> Some(b)] : b \in JsonBodies}
        \cup {[ok |-> TRUE, json |-> None], [ok |-> FALSE, json |-> None]}

\* A call of Client::article_ids_from_query
Call_article_ids_from_query ==
    /\ pc = "idle"
    /\ \E r \in QueryResponses :
          /\ response' = Some(r)
          /\ fn' = "Client::article_ids_from_query"
          /\ ret' = Some(article_ids_from_query(r))
          /\ pc' = "returned"
    /\ UNCHANGED <<strict, arg, doc, ids, paced>>

-----------------------------------------------------------------------------
Init ==
    /\ strict \in BOOLEAN
    /\ pc = "idle"
    /\ fn = "none"
    /\ arg = None
    /\ ret = None
    /\ response = None
    /\ doc = None
    /\ ids = <<>>
    /\ paced = TRUE

Next ==
    \/ Call_parse_month_from_xml
    \/ Call_precision
    \/ Call_PubMedDate
    \/ Call_AffiliationInfo
    \/ Call_Author
    \/ Call_AuthorList
    \/ Call_JournalIssue
    \/ Call_Journal
    \/ Call_Grant
    \/ Call_GrantList
    \/ Call_Abstract
    \/ Call_Article
    \/ Call_MedlineJournalInfo
    \/ Call_KeywordList
    \/ Call_Chemical
    \/ Call_MedlineCitation
    \/ Call_ArticleIdList
    \/ Call_Reference
    \/ Call_PubmedData
    \/ Call_PubmedArticle
    \/ articles_get
    \/ articles_parse
    \/ articles_sleep
    \/ articles_decode
    \/ article_match
    \/ Call_article_ids_from_query
    \/ Return

Spec == Init /\ [][Next]_vars

-----------------------------------------------------------------------------
(* What the claims speak of *)

Range(seq) == {seq[i] : i \in 1..Len(seq)}
Finished == pc \in {"returned", "panicked"}
DecoderCalled == Finished /\ IsSome(arg)
Input == Unwrap(arg)
Output == Unwrap(ret)

\* The decoder behind each name a Call action records.
DecodeBy(name, node) ==
    CASE name = "PubMedDate" -> PubMedDate_new_from_xml(node)
      [] name = "AffiliationInfo" -> AffiliationInfo_new_from_xml(node)
      [] name = "Author" -> Author_new_from_xml(node)
      [] name = "AuthorList" -> AuthorList_new_from_xml(node)
      [] name = "JournalIssue" -> JournalIssue_new_from_xml(node)
      [] name = "Journal" -> Journal_new_from_xml(node)
      [] name = "Grant" -> Grant_new_from_xml(node)
      [] name = "GrantList" -> GrantList_new_from_xml(node)
      [] name = "Abstract" -> Abstract_new_from_xml(node)
      [] name = "Article" -> Article_new_from_xml(node)
      [] name = "MedlineJournalInfo" -> MedlineJournalInfo_new_from_xml(node)
      [] name = "KeywordList" -> KeywordList_new_from_xml(node)
      [] name = "Chemical" -> Chemical_new_from_xml(node)
      [] name = "MedlineCitation" -> MedlineCitation_new_from_xml(node)
      [] name = "ArticleIdList" -> ArticleIdList_new_from_xml(node)
      [] name = "Reference" -> Reference_new_from_xml(node)
      [] name = "PubmedData" -> PubmedData_new_from_xml(node)
      [] name = "PubmedArticle" -> PubmedArticle_new_from_xml(node)

\* The child tags each entity of the record schema recognizes. The lists
\* inside MedlineCitation, Article and PubmedData carry the names the
\* diagnostics give them.
Recognized(e) ==
    CASE e = "PubmedArticle" -> {"MedlineCitation", "PubmedData"}
      [] e = "MedlineCitation" ->
            {"PMID", "CoiStatement", "NumberOfReferences", "KeywordList", "ChemicalList",
             "GeneSymbolList", "InvestigatorList", "OtherID", "CitationSubset",
             "DateCompleted", "DateRevised", "Article", "MedlineJournalInfo",
             "MeshHeadingList", "PersonalNameSubjectList", "GeneralNote", "OtherAbstract",
             "SupplMeshList", "CommentsCorrectionsList"}
      [] e = "MedlineCitation::ChemicalList" -> {"Chemical"}
      [] e = "MedlineCitation::InvestigatorList" -> {"Investigator"}
      [] e = "MedlineCitation::GeneSymbolList" -> {"GeneSymbol"}
      [] e = "Article" ->
            {"ArticleTitle", "Journal", "Pagination", "ELocationID", "Abstract",
             "AuthorList", "Language", "VernacularTitle", "GrantList", "ArticleDate",
             "PublicationTypeList", "DataBankList"}
      [] e = "Pagination" -> {"MedlinePgn"}
      [] e = "Journal" -> {"ISSN", "JournalIssue", "Title", "ISOAbbreviation"}
      [] e = "JournalIssue" -> {"PubDate", "Volume", "Issue"}
      [] e = "Author" ->
            {"LastName", "ForeName", "CollectiveName", "Initials", "Suffix", "Identifier",
             "AffiliationInfo"}
      [] e = "AuthorList" -> {"Author"}
      [] e = "AffiliationInfo" -> {"Affiliation", "Identifier"}
      [] e = "Grant" -> {"GrantID", "Agency", "Country", "Acronym"}
      [] e = "GrantList" -> {"Grant"}
      [] e = "KeywordList" -> {"Keyword"}
      [] e = "Chemical" -> {"RegistryNumber", "NameOfSubstance"}
      [] e = "MedlineJournalInfo" -> {"Country", "MedlineTA", "NlmUniqueID", "ISSNLinking"}
      [] e = "PubmedData" -> {"ReferenceList", "ArticleIdList", "PublicationStatus", "History"}
      [] e = "PubmedData::add_history_from_xml" -> {"PubMedPubDate"}
      [] e = "PubmedData::add_references_from_xml" -> {"Reference"}
      [] e = "Reference" -> {"Citation", "ArticleIdList"}
      [] e = "ArticleIdList" -> {"ArticleId"}
      [] e = "PubMedDate" ->
            {"MedlineDate", "Year", "Month", "Day", "Hour", "Minute", "Season"}

\* The entity that decodes a recognized child, "" for a child that is a leaf
\* or belongs to none of the entities above.
ChildEntity(e, tag) ==
    CASE e = "PubmedArticle" -> tag
      [] e = "MedlineCitation" /\ tag \in {"KeywordList", "Article", "MedlineJournalInfo"} -> tag
      [] e = "MedlineCitation" /\ tag \in {"ChemicalList", "InvestigatorList", "GeneSymbolList"} ->
            "MedlineCitation::" \o tag
      [] e = "MedlineCitation" /\ tag \in {"DateCompleted", "DateRevised"} -> "PubMedDate"
      [] e = "MedlineCitation::ChemicalList" -> "Chemical"
      [] e = "MedlineCitation::InvestigatorList" -> "Author"
      [] e = "Article" /\ tag \in {"Journal", "Pagination", "AuthorList", "GrantList"} -> tag
      [] e = "Article" /\ tag = "ArticleDate" -> "PubMedDate"
      [] e = "Journal" /\ tag = "JournalIssue" -> tag
      [] e = "JournalIssue" /\ tag = "PubDate" -> "PubMedDate"
      [] e = "Author" /\ tag = "AffiliationInfo" -> tag
      [] e = "AuthorList" -> "Author"
      [] e = "GrantList" -> "Grant"
      [] e = "PubmedData" /\ tag = "ReferenceList" -> "PubmedData::add_references_from_xml"
      [] e = "PubmedData" /\ tag = "History" -> "PubmedData::add_history_from_xml"
      [] e = "PubmedData" /\ tag = "ArticleIdList" -> tag
      [] e = "PubmedData::add_history_from_xml" -> "PubMedDate"
      [] e = "PubmedData::add_references_from_xml" -> "Reference"
      [] e = "Reference" /\ tag = "ArticleIdList" -> tag
      [] OTHER -> ""

\* Every <<entity, tag>> where, inside `node` decoded as entity e, a child's
\* tag is outside the recognized set of the entity that contains it.
RECURSIVE UnrecognizedIn(_, _)
UnrecognizedIn(e, node) ==
    UNION {IF k.tag \notin Recognized(e) THEN {<<e, k.tag>>}
           ELSE IF ChildEntity(e, k.tag) = "" THEN {}
           ELSE UnrecognizedIn(ChildEntity(e, k.tag), k) : k \in Range(node.kids)}

StrictEntities ==
    {"PubmedArticle", "MedlineCitation", "Article", "Journal", "JournalIssue", "Author",
     "AuthorList", "AffiliationInfo", "Grant", "GrantList", "KeywordList", "Chemical",
     "MedlineJournalInfo", "PubmedData", "Reference", "ArticleIdList", "PubMedDate"}

\* C1 (as claimed): in strict mode every entity decoder ends in a failure that
\* names the tag and the containing entity when a child's tag is outside the
\* entity's recognized set.
C1_StrictFailsOnUnrecognized ==
    (DecoderCalled /\ strict /\ fn \in StrictEntities
        /\ UnrecognizedIn(fn, Input) # {})
    => (pc = "panicked" /\ Output.panic \in UnrecognizedIn(fn, Input))

\* What the code does: a strict decode fails exactly when an unrecognized
\* child sits in an entity that hands it to missing_tag_warning, which
\* AuthorList, GrantList and add_references_from_xml do not.
LenientSites ==
    {"AuthorList", "GrantList", "PubmedData::add_references_from_xml"}
UnrecognizedChecked(e, node) == {u \in UnrecognizedIn(e, node) : u[1] \notin LenientSites}
StrictFailsWhereChecked ==
    (DecoderCalled /\ strict /\ fn \in StrictEntities)
    => (pc = "panicked" <=> UnrecognizedChecked(fn, Input) # {})

RemoveAt(seq, i) == SubSeq(seq, 1, i - 1) \o SubSeq(seq, i + 1, Len(seq))

\* `node`, decoded as entity e, with the subtree of one unrecognized child
\* removed, for every such child whose containing entity is outside X.
RECURSIVE Pruned(_, _, _)
Pruned(X, e, node) ==
    UNION {IF node.kids[i].tag \notin Recognized(e)
           THEN (IF e \in X THEN {} ELSE {[node EXCEPT !.kids = RemoveAt(@, i)]})
           ELSE IF ChildEntity(e, node.kids[i].tag) = "" THEN {}
           ELSE {[node EXCEPT !.kids[i] = q] :
                    q \in Pruned(X, ChildEntity(e, node.kids[i].tag), node.kids[i])} :
           i \in 1..Len(node.kids)}

\* The record-boundary elements of a response text, by position.
RecordStarts(body) ==
    {k \in 1..Len(body) : body[k].k = "open" /\ body[k].tag = "PubmedArticle"}
ArticlesCalled == fn = "Client::articles" /\ IsSome(response)
ArticlesReturnedOk == ArticlesCalled /\ pc = "returned" /\ "ok" \in DOMAIN Output

\* C2 (as claimed): in permissive mode an unrecognized child never fails the
\* decode, and the containing entity decodes to the same value as the same
\* input with the unrecognized child's subtree removed, whatever the entity.
C2_PermissiveSameAsRemoved ==
    (DecoderCalled /\ ~strict /\ fn \in StrictEntities)
    => /\ pc = "returned"
       /\ \A p \in Pruned({}, fn, Input) : Output = DecodeBy(fn, p)

\* C2 (amended): in permissive mode no decode fails and a batch yields a
\* record for every record element of its text; an entity that dispatches on
\* its direct children decodes to the same value as with the unrecognized
\* child's subtree removed. AuthorList and GrantList collect from all their
\* descendants and are excepted: what sits inside an unrecognized child of
\* theirs is still decoded.
DescendantCollectors == {"AuthorList", "GrantList"}
C2_PermissiveIgnoresUnrecognized ==
    /\ (~strict => pc # "panicked")
    /\ (DecoderCalled /\ ~strict /\ fn \in StrictEntities)
       => \A p \in Pruned(DescendantCollectors, fn, Input) : Output = DecodeBy(fn, p)
    /\ (ArticlesReturnedOk /\ ~strict)
       => Len(Output.ok) = Cardinality(RecordStarts(Unwrap(response).body))

\* C2 witness: a permissive decode of a MedlineCitation that holds a PMID and
\* then an unrecognized child with another PMID inside; the first is kept.
C2_Witness ==
    /\ DecoderCalled /\ ~strict /\ pc = "returned"
    /\ fn = "MedlineCitation"
    /\ Input.kids = <<Leaf("PMID", <<"2","2","7">>), Unknown(<<Leaf("PMID", <<"9">>)>>)>>
    /\ Output.pmid = 227
    /\ Pruned(DescendantCollectors, fn, Input) # {}

RECURSIVE Ascending(_)
Ascending(S) ==
    IF S = {} THEN <<>>
    ELSE LET m == CHOOSE x \in S : \A y \in S : x <= y
         IN <<m>> \o Ascending(S \ {m})

\* The element that starts at token k of a text.
SubtreeAt(body, k) == ParseContent(body, k).kids[1]
\* One decode per record-boundary element of the text, in text order.
ExpectedRecords(body) ==
    LET starts == Ascending(RecordStarts(body))
    IN [i \in 1..Len(starts) |-> PubmedArticle_new_from_xml(SubtreeAt(body, starts[i]))]
Body == Unwrap(response).body
Retrieved == ArticlesCalled /\ Unwrap(response).ok

\* C3: for a well-formed document, a Client::articles call that returns gives
\* one decoded record per PubmedArticle element anywhere in the text, in text
\* order, equal ones not merged, and the empty sequence (no error) when the
\* text holds none.
C3_OneRecordPerOccurrence ==
    (Retrieved /\ pc = "returned" /\ Body \in WellFormedTexts)
    => /\ "ok" \in DOMAIN Output
       /\ Output.ok = ExpectedRecords(Body)

\* C3 witness: a batch whose first record holds another record inside an
\* unrecognized element, followed by a third: three records, in text order.
C3_Witness ==
    /\ Retrieved /\ pc = "returned" /\ IsSome(ret) /\ "ok" \in DOMAIN Output
    /\ Body = Serialize(Elem("PubmedArticleSet", {}, None, <<RecordNested, RecordA>>))
    /\ Len(Output.ok) = 3
    /\ [i \in 1..3 |-> Unwrap(Output.ok[i].medline_citation).pmid] = <<4, 2, 1>>

\* C4: a retrieved text that is not well-formed makes Client::articles return
\* an error, with no document and no record; a retrieved text that is
\* well-formed never makes it return an error, whatever its records lack.
C4_ErrorIffNotWellFormed ==
    Retrieved =>
        /\ (Body \in BrokenTexts /\ pc # "got")
           => (pc = "returned" /\ Output = [err |-> "xml"] /\ doc = None)
        /\ (Body \in WellFormedTexts /\ IsSome(ret)) => "err" \notin DOMAIN Output
        /\ (Body \in WellFormedTexts /\ pc # "got") => IsSome(doc)

\* C4 witness: the call has returned the error for a text whose last close
\* tag is missing.
C4_Witness ==
    /\ Retrieved /\ pc = "returned"
    /\ Body = SubSeq(Serialize(RecordA), 1, Len(Serialize(RecordA)) - 1)
    /\ Output = [err |-> "xml"]

-----------------------------------------------------------------------------
(* Dates *)

HasKid(node, tag) == \E k \in Range(node.kids) : k.tag = tag
KidsWithTag(node, tags) == SelectSeq(node.kids, LAMBDA k : k.tag \in tags)
LastKid(node, tag) == KidsWithTag(node, {tag})[Len(KidsWithTag(node, {tag}))]
Returned == DecoderCalled /\ pc = "returned"

\* The dates a decoded value holds, by the entity it is a value of.
DatesOfJournalIssue(x) == Range(x.pub_date)
DatesOfJournal(x) == UNION {DatesOfJournalIssue(i) : i \in Range(x.journal_issue)}
DatesOfArticle(x) ==
    Range(x.article_date) \cup UNION {DatesOfJournal(j) : j \in Range(x.journal)}
DatesOfMedlineCitation(x) ==
    Range(x.date_completed) \cup Range(x.date_revised)
        \cup UNION {DatesOfArticle(a) : a \in Range(x.article)}
DatesOfPubmedData(x) == Range(x.history)
DatesOfPubmedArticle(x) ==
    UNION {DatesOfMedlineCitation(m) : m \in Range(x.medline_citation)}
        \cup UNION {DatesOfPubmedData(d) : d \in Range(x.pubmed_data)}
DatesOf(name, x) ==
    CASE name = "PubMedDate" -> Range(x.opt)
      [] name = "JournalIssue" -> DatesOfJournalIssue(x)
      [] name = "Journal" -> DatesOfJournal(x)
      [] name = "Article" -> DatesOfArticle(x)
      [] name = "MedlineCitation" -> DatesOfMedlineCitation(x)
      [] name = "PubmedData" -> DatesOfPubmedData(x)
      [] name = "PubmedArticle" -> DatesOfPubmedArticle(x)
      [] OTHER -> {}

\* The optional date field of an entity is absent when the last element that
\* sets it has no Year child.
AbsentWithoutYear(tag, field) ==
    (HasKid(Input, tag) /\ ~HasKid(LastKid(Input, tag), "Year")) => Output[field] = None
\* The date elements of a list, over all its containers, that have a Year.
WithYear(node, container, tag) ==
    IF container = ""
    THEN {i \in 1..Len(node.kids) : node.kids[i].tag = tag /\ HasKid(node.kids[i], "Year")}
    ELSE {ij \in (1..Len(node.kids)) \X (1..MaxKids) :
             /\ node.kids[ij[1]].tag = container
             /\ ij[2] <= Len(node.kids[ij[1]].kids)
             /\ node.kids[ij[1]].kids[ij[2]].tag = tag
             /\ HasKid(node.kids[ij[1]].kids[ij[2]], "Year")}

\* C5: a date element without a Year child gives no date: the decode of the
\* element is absent, the optional field it would set is absent, the
\* article_date and history lists get no entry for it; and every date in a
\* decoded value, a batch of records included, has year > 0.
C5_NoYearNoDate ==
    /\ (Returned /\ fn = "PubMedDate" /\ ~HasKid(Input, "Year")) => Output.opt = None
    /\ (Returned /\ fn = "MedlineCitation")
       => /\ AbsentWithoutYear("DateCompleted", "date_completed")
          /\ AbsentWithoutYear("DateRevised", "date_revised")
    /\ (Returned /\ fn = "JournalIssue") => AbsentWithoutYear("PubDate", "pub_date")
    /\ (Returned /\ fn = "Article")
       => Len(Output.article_date) <= Cardinality(WithYear(Input, "", "ArticleDate"))
    /\ (Returned /\ fn = "PubmedData")
       => Len(Output.history) <= Cardinality(WithYear(Input, "History", "PubMedPubDate"))
    /\ Returned => \A d \in DatesOf(fn, Output) : d.year > 0
    /\ ArticlesReturnedOk
       => \A r \in Range(Output.ok) : \A d \in DatesOfPubmedArticle(r) : d.year > 0

\* C5 witness: a History with a date without Year and then a date of 1961
\* has decoded to a history of the one date.
C5_Witness ==
    /\ Returned /\ fn = "PubmedData"
    /\ Input.kids = <<Elem("History", {}, None,
                           <<DateNoYear("PubMedPubDate"), DateYearMonth("PubMedPubDate")>>)>>
    /\ Len(Output.history) = 1
    /\ Output.history[1].year = 1961

PrecisionCalled == pc = "returned" /\ fn = "precision" /\ IsSome(arg)
\* Which of month, day, hour, minute a date holds, in this order.
Present(d) == <<d.month # 0, d.day # 0, d.hour # -1, d.minute # -1>>

\* C6 (as claimed): the precision of a materialized date is that of its most
\* specific present field: 13 for minute, 12 for hour, 11 for day, 10 for
\* month, 9 for the year alone.
C6_MostSpecificPresent ==
    PrecisionCalled
    => Output.val = 9 + (IF \E i \in 1..4 : Present(Input)[i]
                         THEN CHOOSE i \in 1..4 :
                                 /\ Present(Input)[i]
                                 /\ \A j \in (i + 1)..4 : ~Present(Input)[j]
                         ELSE 0)

\* C6 (amended): the precision of a materialized date is 9 plus the number of
\* fields present without a gap from month on, in the order month, day, hour,
\* minute: a field counts only when every coarser field is present.
C6_PresentPrefix ==
    PrecisionCalled
    => Output.val = 9 + Cardinality({i \in 1..4 : \A j \in 1..i : Present(Input)[j]})

\* C6 witness: precision was taken of a date with month and day and no hour.
C6_Witness ==
    /\ PrecisionCalled
    /\ Present(Input) = <<TRUE, TRUE, FALSE, FALSE>>
    /\ Output.val = 11

\* The case variants of the m-th month abbreviation.
VariantsOf(m) ==
    {[i \in 1..3 |-> IF up[i] THEN UpperChar(MonthNames[m][i]) ELSE MonthNames[m][i]] :
        up \in [1..3 -> BOOLEAN]}
IsNumeric(t) == Len(t) > 0 /\ \A i \in 1..Len(t) : t[i] \in Digits
RECURSIVE NumberOf(_)
NumberOf(t) ==
    IF Len(t) = 0 THEN 0
    ELSE 10 * NumberOf(SubSeq(t, 1, Len(t) - 1)) + DigitVal(t[Len(t)])
\* The month a Month text stands for, as the claim has it.
MonthClaimed(text) ==
    IF IsNone(text) THEN 0
    ELSE IF \E m \in 1..12 : Unwrap(text) \in VariantsOf(m)
    THEN CHOOSE m \in 1..12 : Unwrap(text) \in VariantsOf(m)
    ELSE IF IsNumeric(Unwrap(text)) THEN NumberOf(Unwrap(text))
    ELSE 0
\* The same, a number being digits after an optional "+", of value at most 255.
Unsigned(t) == IF Len(t) > 0 /\ t[1] = "+" THEN Tail(t) ELSE t
MonthOf(text) ==
    IF IsNone(text) THEN 0
    ELSE IF \E m \in 1..12 : Unwrap(text) \in VariantsOf(m)
    THEN CHOOSE m \in 1..12 : Unwrap(text) \in VariantsOf(m)
    ELSE IF IsNumeric(Unsigned(Unwrap(text))) /\ NumberOf(Unsigned(Unwrap(text))) <= 255
    THEN NumberOf(Unsigned(Unwrap(text)))
    ELSE 0
MonthCalled == Finished /\ fn = "parse_month_from_xml" /\ IsSome(arg)

\* C7 (as claimed): every case variant of jan..dec parses to 1..12, a string
\* of digits to its number, any other text and a Month without text to 0, and
\* the parse never fails.
C7_MonthAsClaimed ==
    MonthCalled => (pc = "returned" /\ Output.val = MonthClaimed(Input.text))

\* C7 (amended): every case variant of jan..dec parses to 1..12; a string of
\* digits, which one "+" may precede, parses to its number when that is at
\* most 255; every other text, a number above 255 included, and a Month
\* without text parse to 0. The parse never fails, and a date with a Year
\* holds the month so parsed from its last Month child.
C7_MonthParse ==
    /\ MonthCalled => (pc = "returned" /\ Output.val = MonthOf(Input.text))
    /\ (Returned /\ fn = "PubMedDate" /\ HasKid(Input, "Month") /\ IsSome(Output.opt))
       => Unwrap(Output.opt).month = MonthOf(LastKid(Input, "Month").text)

\* C7 witness: the text "MAY" has parsed to 5.
C7_Witness ==
    /\ MonthCalled
    /\ Input.text = Some(<<"M", "A", "Y">>)
    /\ Output.val = 5

\* Year, month and day of a date.
YMD(d) == <<d.year, d.month, d.day>>
\* A date element the claim covers: a Year of digits and value above 0 and,
\* if a Day, one of digits and value at most 255.
Dated(n) ==
    /\ HasKid(n, "Year")
    /\ IsSome(LastKid(n, "Year").text)
    /\ IsNumeric(Unwrap(LastKid(n, "Year").text))
    /\ NumberOf(Unwrap(LastKid(n, "Year").text)) > 0
    /\ HasKid(n, "Day")
       => /\ IsSome(LastKid(n, "Day").text)
          /\ IsNumeric(Unwrap(LastKid(n, "Day").text))
          /\ NumberOf(Unwrap(LastKid(n, "Day").text)) <= 255
ExpectedYMD(n) ==
    <<NumberOf(Unwrap(LastKid(n, "Year").text)),
      IF HasKid(n, "Month") THEN MonthOf(LastKid(n, "Month").text) ELSE 0,
      IF HasKid(n, "Day") THEN NumberOf(Unwrap(LastKid(n, "Day").text)) ELSE 0>>
\* The optional date field holds the date of the last element that sets it.
HoldsDateOf(tag, field) ==
    (HasKid(Input, tag) /\ Dated(LastKid(Input, tag)))
    => /\ IsSome(Output[field])
       /\ YMD(Unwrap(Output[field])) = ExpectedYMD(LastKid(Input, tag))

\* C8: a date element with Year y > 0 decodes to a date of year y, of the
\* month parsed from Month or 0 without Month, of the day of Day or 0 without
\* Day: 2012, 8, 17 gives {2012, 8, 17}; 1961 with "May" gives {1961, 5, 0}
\* at precision 10; 1961 alone gives {1961, 0, 0} at precision 9. This holds
\* of the element decoded alone, of date_completed and date_revised in a
\* MedlineCitation, of pub_date in a JournalIssue, in an Article and in the
\* records of a batch.
C8_DateDecodes ==
    /\ (Returned /\ fn = "PubMedDate" /\ Dated(Input))
       => /\ IsSome(Output.opt)
          /\ YMD(Unwrap(Output.opt)) = ExpectedYMD(Input)
    /\ (Returned /\ fn = "PubMedDate" /\ Input.kids = DateFull("PubDate").kids)
       => YMD(Unwrap(Output.opt)) = <<2012, 8, 17>>
    /\ (Returned /\ fn = "PubMedDate" /\ Input.kids = DateYearMonth("PubDate").kids)
       => YMD(Unwrap(Output.opt)) = <<1961, 5, 0>>
    /\ (Returned /\ fn = "PubMedDate"
          /\ Input.kids = <<Leaf("Year", <<"1", "9", "6", "1">>)>>)
       => YMD(Unwrap(Output.opt)) = <<1961, 0, 0>>
    /\ (PrecisionCalled /\ YMD(Input) = <<1961, 5, 0>>) => Output.val = 10
    /\ (PrecisionCalled /\ YMD(Input) = <<1961, 0, 0>>) => Output.val = 9
    /\ (Returned /\ fn = "MedlineCitation")
       => /\ HoldsDateOf("DateCompleted", "date_completed")
          /\ HoldsDateOf("DateRevised", "date_revised")
    /\ (Returned /\ fn = "JournalIssue") => HoldsDateOf("PubDate", "pub_date")
    /\ (Returned /\ fn = "Article" /\ HasKid(Input, "Journal")
          /\ LastKid(Input, "Journal") = JournalA)
       => YMD(Unwrap(Unwrap(Unwrap(Output.journal).journal_issue).pub_date)) = <<1961, 5, 0>>
    /\ ArticlesReturnedOk
       => \A i \in 1..Len(Output.ok) :
             LET m == Unwrap(Output.ok[i].medline_citation)
             IN /\ m.pmid = 1 => YMD(Unwrap(m.date_completed)) = <<2012, 8, 17>>
                /\ m.pmid = 2
                   => YMD(Unwrap(Unwrap(Unwrap(Unwrap(m.article).journal).journal_issue).pub_date))
                        = <<1961, 5, 0>>

\* C8 witness: an Article whose Journal holds the issue of May 1961 has
\* decoded to a pub_date of {1961, 5, 0}.
C8_Witness ==
    /\ Returned /\ fn = "Article"
    /\ HasKid(Input, "Journal") /\ LastKid(Input, "Journal") = JournalA
    /\ YMD(Unwrap(Unwrap(Unwrap(Output.journal).journal_issue).pub_date)) = <<1961, 5, 0>>

-----------------------------------------------------------------------------
(* Repeated children *)

\* The list fields of the decoded entities, as the claim has them.
ListFieldsClaimed ==
    {"identifiers", "authors", "grants", "pagination", "e_location_ids",
     "publication_type_list", "article_date", "keywords", "other_ids", "citation_subsets",
     "gene_symbol_list", "keyword_lists", "chemical_list", "investigator_list",
     "mesh_heading_list", "history", "references", "ids"}
\* The list fields to which every occurrence of their tag adds.
ListFieldsAdding == ListFieldsClaimed \ {"publication_type_list", "mesh_heading_list"}
\* The child tags that assign a field; none for a field read from an attribute.
SetterTags(name, f) ==
    CASE f = "title" -> IF name = "Article" THEN {"ArticleTitle"} ELSE {"Title"}
      [] f = "last_name" -> {"LastName"}
      [] f = "fore_name" -> {"ForeName"}
      [] f = "collective_name" -> {"CollectiveName"}
      [] f = "initials" -> {"Initials"}
      [] f = "suffix" -> {"Suffix"}
      [] f = "affiliation_info" -> {"AffiliationInfo"}
      [] f = "affiliation" -> {"Affiliation"}
      [] f = "volume" -> {"Volume"}
      [] f = "issue" -> {"Issue"}
      [] f = "pub_date" -> {"PubDate"}
      [] f \in {"issn", "issn_type"} -> {"ISSN"}
      [] f = "journal_issue" -> {"JournalIssue"}
      [] f = "iso_abbreviation" -> {"ISOAbbreviation"}
      [] f = "grant_id" -> {"GrantID"}
      [] f = "agency" -> {"Agency"}
      [] f = "country" -> {"Country"}
      [] f = "acronym" -> {"Acronym"}
      [] f = "journal" -> {"Journal"}
      [] f = "the_abstract" -> {"Abstract"}
      [] f = "author_list" -> {"AuthorList"}
      [] f = "language" -> {"Language"}
      [] f = "vernacular_title" -> {"VernacularTitle"}
      [] f = "grant_list" -> {"GrantList"}
      [] f = "publication_type_list" -> {"PublicationTypeList"}
      [] f = "medline_ta" -> {"MedlineTA"}
      [] f = "nlm_unique_id" -> {"NlmUniqueID"}
      [] f = "issn_linking" -> {"ISSNLinking"}
      [] f = "registry_number" -> {"RegistryNumber"}
      [] f \in {"name_of_substance", "name_of_substance_ui"} -> {"NameOfSubstance"}
      [] f = "pmid" -> {"PMID"}
      [] f = "date_completed" -> {"DateCompleted"}
      [] f = "date_revised" -> {"DateRevised"}
      [] f = "mesh_heading_list" -> {"MeshHeadingList"}
      [] f = "medline_journal_info" -> {"MedlineJournalInfo"}
      [] f = "article" -> {"Article"}
      [] f = "coi_statement" -> {"CoiStatement"}
      [] f = "number_of_references" -> {"NumberOfReferences"}
      [] f = "citation" -> {"Citation"}
      [] f = "article_ids" -> {"ArticleIdList"}
      [] f = "publication_status" -> {"PublicationStatus"}
      [] f = "medline_citation" -> {"MedlineCitation"}
      [] f = "pubmed_data" -> {"PubmedData"}
      [] OTHER -> {}
\* Child k assigns field f; with `textual`, a PMID does so only if it has text.
Assigns(name, f, k, textual) ==
    /\ k.tag \in SetterTags(name, f)
    /\ (textual /\ f = "pmid") => IsSome(k.text)

RecordEntities == StrictEntities \ {"PubMedDate"}
\* However the children are cut in two, a field in `lists` is what the first
\* part gives followed by what the second part gives, and any other field is
\* what the second part gives if a child there assigns it, else what the first
\* part gives.
SplitsAgree(lists, textual) ==
    (Returned /\ fn \in RecordEntities)
    => \A j \in 1..(Len(Input.kids) - 1) :
          LET a == DecodeBy(fn, [Input EXCEPT !.kids = SubSeq(@, 1, j)])
              b == DecodeBy(fn, [Input EXCEPT !.kids = SubSeq(@, j + 1, Len(@))])
              later == SubSeq(Input.kids, j + 1, Len(Input.kids))
          IN \A f \in DOMAIN Output :
                Output[f] = IF f \in lists THEN a[f] \o b[f]
                            ELSE IF \E k \in Range(later) : Assigns(fn, f, k, textual)
                            THEN b[f]
                            ELSE a[f]

\* C9 (as claimed): children are processed in document order; every
\* occurrence of a tag that feeds a list field adds to it, in order, and a
\* scalar field holds the value of the last occurrence of its tag.
C9_EveryOccurrenceCounts == SplitsAgree(ListFieldsClaimed, FALSE)

\* C9 (amended): children are processed in document order; every occurrence
\* of a tag that feeds a list field adds to it, in order, except that a later
\* MeshHeadingList or PublicationTypeList replaces the list of the earlier
\* one; a scalar field holds the value of the last occurrence of its tag,
\* except that a PMID without text leaves the pmid of an earlier PMID.
C9_OrderAndLastWins == SplitsAgree(ListFieldsAdding, TRUE)

\* C9 witness: an Article with two different ELocationID has decoded to both
\* locations, in document order.
C9_Witness ==
    /\ Returned /\ fn = "Article"
    /\ Len(Input.kids) = 2
    /\ \A i \in 1..2 : Input.kids[i].tag = "ELocationID"
    /\ Input.kids[1] # Input.kids[2]
    /\ Len(Output.e_location_ids) = 2
    /\ [i \in 1..2 |-> Output.e_location_ids[i].id] = [i \in 1..2 |-> Input.kids[i].text]

-----------------------------------------------------------------------------
(* Abstract *)

\* The AbstractText start tags of an element's text, by position.
BlockStarts(toks) ==
    {k \in 1..Len(toks) : toks[k].k = "open" /\ toks[k].tag = "AbstractText"}
FirstBlock(toks) == CHOOSE k \in BlockStarts(toks) : \A m \in BlockStarts(toks) : k <= m
\* The text right after the start tag at k, "" when there is none.
TextAfter(toks, k) == IF toks[k + 1].k = "text" THEN toks[k + 1].s ELSE <<>>

\* C10: an Abstract decodes to the text of its first AbstractText in document
\* order, whatever follows it, and to an absent text when it holds no
\* AbstractText; the decode never fails.
C10_FirstBlockOnly ==
    (DecoderCalled /\ fn = "Abstract")
    => /\ pc = "returned"
       /\ Output.text = IF BlockStarts(Serialize(Input)) = {} THEN None
                        ELSE Some(TextAfter(Serialize(Input), FirstBlock(Serialize(Input))))

\* C10 witness: an Abstract with the blocks "a" and "b" has decoded to "a".
C10_Witness ==
    /\ Returned /\ fn = "Abstract"
    /\ Input.kids = <<Leaf("AbstractText", ta), Leaf("AbstractText", tb)>>
    /\ Output.text = Some(ta)

-----------------------------------------------------------------------------
(* Mesh headings *)

\* The start tags of a name in a text, in text order.
StartsOf(toks, tag) ==
    Ascending({k \in 1..Len(toks) : toks[k].k = "open" /\ toks[k].tag = tag})
\* The value of an attribute of a start tag.
AttrOf(tok, name) ==
    IF \E a \in tok.attr : a[1] = name
    THEN Some((CHOOSE a \in tok.attr : a[1] = name)[2])
    ELSE None
\* The mesh term of the start tag at k.
TermAt(toks, k) ==
    [ui |-> AttrOf(toks[k], "UI"),
     major_topic |-> AttrOf(toks[k], "MajorTopicYN") = Some(<<"Y">>),
     name |-> IF toks[k + 1].k = "text" THEN Some(toks[k + 1].s) ELSE None]
\* The heading of a MeshHeading element given as text: its first descriptor
\* and all its qualifiers.
HeadingOf(toks) ==
    [descriptor |-> TermAt(toks, StartsOf(toks, "DescriptorName")[1]),
     qualifiers |-> [i \in 1..Len(StartsOf(toks, "QualifierName")) |->
                        TermAt(toks, StartsOf(toks, "QualifierName")[i])]]
\* The headings of a MeshHeadingList given as text: one for every MeshHeading
\* element that holds a DescriptorName, in text order.
ExpectedHeadings(toks) ==
    LET hs == SelectSeq([i \in 1..Len(StartsOf(toks, "MeshHeading")) |->
                            Serialize(SubtreeAt(toks, StartsOf(toks, "MeshHeading")[i]))],
                        LAMBDA h : StartsOf(h, "DescriptorName") # <<>>)
    IN [i \in 1..Len(hs) |-> HeadingOf(hs[i])]

\* C11: the mesh_heading_list of a MedlineCitation is, in document order, the
\* headings of exactly the MeshHeading elements under its MeshHeadingList
\* that hold a DescriptorName, each with the UI, major-topic flag and name of
\* its descriptor and with all its qualifiers in document order; a
\* MeshHeading without descriptor is left out and fails nothing.
C11_MeshHeadings ==
    /\ (Returned /\ fn = "MedlineCitation" /\ HasKid(Input, "MeshHeadingList"))
       => Output.mesh_heading_list
            = ExpectedHeadings(Serialize(LastKid(Input, "MeshHeadingList")))
    /\ (DecoderCalled /\ fn = "MedlineCitation"
          /\ \A k \in Range(Input.kids) : k.tag = "MeshHeadingList")
       => pc = "returned"

\* C11 witness: a list of a heading with descriptor D1, major topic, and two
\* qualifiers, and of a heading without descriptor, has decoded to the one
\* heading.
C11_Witness ==
    /\ Returned /\ fn = "MedlineCitation"
    /\ Input.kids = <<Elem("MeshHeadingList", {}, None,
                           <<MeshHeadingNoDescriptor, MeshHeadingA>>)>>
    /\ Len(Output.mesh_heading_list) = 1
    /\ Output.mesh_heading_list[1].descriptor
         = [ui |-> Some(<<"D", "1">>), major_topic |-> TRUE, name |-> Some(ta)]
    /\ Len(Output.mesh_heading_list[1].qualifiers) = 2
    /\ Output.mesh_heading_list[1].qualifiers[2].ui = Some(<<"Q", "2">>)

-----------------------------------------------------------------------------
(* Y/N attributes *)

\* The attribute is there and its value is "Y".
Yes(attr, a) == <<a, <<"Y">>>> \in attr
\* A MeshHeading whose children are its descriptor and qualifiers.
FlatHeading(h) ==
    /\ h.tag = "MeshHeading"
    /\ HasKid(h, "DescriptorName")
    /\ \A k \in Range(h.kids) : k.tag \in {"DescriptorName", "QualifierName"}

\* C12: every flag read from a Y/N attribute is true exactly when the
\* attribute is there with the value "Y": valid of an Author, complete of an
\* AuthorList and a GrantList, major_topic of a Keyword and of the descriptor
\* and the qualifiers of a MeshHeading, valid of an ELocationID and of the
\* authors of an AuthorList. For Author, AuthorList and GrantList the flag is
\* that of the same element without children.
C12_YesOnlyForY ==
    /\ (Returned /\ fn = "Author")
       => /\ Output.valid = Yes(Input.attr, "ValidYN")
          /\ Output.valid = DecodeBy(fn, [Input EXCEPT !.kids = <<>>]).valid
    /\ (Returned /\ fn \in {"AuthorList", "GrantList"})
       => /\ Output.complete = Yes(Input.attr, "CompleteYN")
          /\ Output.complete = DecodeBy(fn, [Input EXCEPT !.kids = <<>>]).complete
    /\ (Returned /\ fn = "AuthorList")
       => LET toks == Serialize(Input)
          IN /\ Len(Output.authors) = Len(StartsOf(toks, "Author"))
             /\ \A i \in 1..Len(Output.authors) :
                   Output.authors[i].valid = Yes(toks[StartsOf(toks, "Author")[i]].attr, "ValidYN")
    /\ (Returned /\ fn = "KeywordList")
       => LET ks == KidsWithTag(Input, {"Keyword"})
          IN /\ Len(Output.keywords) = Len(ks)
             /\ \A i \in 1..Len(ks) :
                   Output.keywords[i].major_topic = Yes(ks[i].attr, "MajorTopicYN")
    /\ (Returned /\ fn = "Article")
       => LET es == KidsWithTag(Input, {"ELocationID"})
          IN /\ Len(Output.e_location_ids) = Len(es)
             /\ \A i \in 1..Len(es) : Output.e_location_ids[i].valid = Yes(es[i].attr, "ValidYN")
    /\ (Returned /\ fn = "MedlineCitation" /\ Len(Input.kids) = 1
          /\ Input.kids[1].tag = "MeshHeadingList"
          /\ \A h \in Range(Input.kids[1].kids) : FlatHeading(h))
       => LET hs == Input.kids[1].kids
          IN /\ Len(Output.mesh_heading_list) = Len(hs)
             /\ \A i \in 1..Len(hs) :
                   /\ Output.mesh_heading_list[i].descriptor.major_topic
                        = Yes(LET ds == KidsWithTag(hs[i], {"DescriptorName"}) IN ds[1].attr,
                              "MajorTopicYN")
                   /\ \A j \in 1..Len(KidsWithTag(hs[i], {"QualifierName"})) :
                         Output.mesh_heading_list[i].qualifiers[j].major_topic
                           = Yes(KidsWithTag(hs[i], {"QualifierName"})[j].attr, "MajorTopicYN")

\* C12 witness: an Author with ValidYN="y" and a LastName has decoded to an
\* author that is not valid.
C12_Witness ==
    /\ Returned /\ fn = "Author"
    /\ Input.attr = {<<"ValidYN", <<"y">>>>}
    /\ Input.kids = <<Leaf("LastName", ta)>>
    /\ Output.valid = FALSE
    /\ Output.last_name = Some(ta)

-----------------------------------------------------------------------------
(* Omitted children *)

\* The fields read from the element's own attributes.
AttributeFields == {"pub_model", "valid", "complete", "cited_medium", "owner"}
\* The child tags whose occurrences add to a list field.
FeederTags(f) ==
    CASE f = "identifiers" -> {"Identifier"}
      [] f = "authors" -> {"Author"}
      [] f = "grants" -> {"Grant"}
      [] f = "pagination" -> {"Pagination"}
      [] f = "e_location_ids" -> {"ELocationID"}
      [] f = "article_date" -> {"ArticleDate"}
      [] f = "keywords" -> {"Keyword"}
      [] f = "other_ids" -> {"OtherID"}
      [] f = "citation_subsets" -> {"CitationSubset"}
      [] f = "gene_symbol_list" -> {"GeneSymbolList"}
      [] f = "keyword_lists" -> {"KeywordList"}
      [] f = "chemical_list" -> {"ChemicalList"}
      [] f = "investigator_list" -> {"InvestigatorList"}
      [] f = "history" -> {"History"}
      [] f = "references" -> {"ReferenceList"}
      [] f = "ids" -> {"ArticleId"}
      [] OTHER -> {}
\* Some element under `node` gives field f of entity `name` a value: a child,
\* or for the authors and grants of a list any descendant.
Fed(name, f, node) ==
    IF f \in {"authors", "grants"}
    THEN \E d \in Range(DescendantsOfKids(node.kids, 1)) : d.tag \in FeederTags(f)
    ELSE \E k \in Range(node.kids) : k.tag \in SetterTags(name, f) \cup FeederTags(f)
\* What a field holds when nothing gives it a value.
DefaultOf(f) == IF f = "pmid" THEN 0 ELSE <<>>

\* C13: a record entity decoded from an element holds the default in every
\* field that none of the element's children gives a value: 0 for pmid, the
\* empty list for a list, nothing for an optional scalar or nested entity.
\* Leaving out any one child of an element that decodes gives an element that
\* decodes, and an element without children decodes.
C13_OmittedGiveDefaults ==
    /\ (Returned /\ fn \in RecordEntities)
       => /\ \A f \in DOMAIN Output \ AttributeFields :
                ~Fed(fn, f, Input) => Output[f] = DefaultOf(f)
          /\ \A j \in 1..Len(Input.kids) :
                ~IsPanic(DecodeBy(fn, [Input EXCEPT !.kids = RemoveAt(@, j)]))
    /\ (DecoderCalled /\ fn \in RecordEntities /\ Input.kids = <<>>) => pc = "returned"

\* C13 witness: a MedlineCitation with a PMID as its only child has decoded to
\* a citation with that pmid, no article, no dates and no keyword lists.
C13_Witness ==
    /\ Returned /\ fn = "MedlineCitation"
    /\ Len(Input.kids) = 1 /\ Input.kids[1].tag = "PMID"
    /\ Output.pmid > 0
    /\ Output.article = None
    /\ Output.number_of_references = None
    /\ Output.date_completed = None
    /\ Output.keyword_lists = <<>>

-----------------------------------------------------------------------------
(* Numeric fields *)

\* The text is a number within lo..hi: digits after an optional "+", or
\* after a "-" where lo is negative.
NumericIn(text, lo, hi) ==
    /\ IsSome(text)
    /\ \/ IsNumeric(Unsigned(Unwrap(text))) /\ NumberOf(Unsigned(Unwrap(text))) <= hi
       \/ /\ lo < 0 /\ Len(Unwrap(text)) > 1 /\ Unwrap(text)[1] = "-"
          /\ IsNumeric(Tail(Unwrap(text))) /\ 0 - NumberOf(Tail(Unwrap(text))) >= lo
ValueOf(text) ==
    IF Unwrap(text)[1] = "-" THEN 0 - NumberOf(Tail(Unwrap(text)))
    ELSE NumberOf(Unsigned(Unwrap(text)))
\* What the last child with this tag gives a numeric field, `dflt` when there
\* is no such child or its text is not a number within lo..hi.
NumericField(node, tag, lo, hi, dflt) ==
    IF ~HasKid(node, tag) THEN dflt
    ELSE IF NumericIn(LastKid(node, tag).text, lo, hi) THEN ValueOf(LastKid(node, tag).text)
    ELSE dflt
\* The children with this tag that have text.
TextKids(node, tag) == SelectSeq(node.kids, LAMBDA k : k.tag = tag /\ IsSome(k.text))
\* The element with the text of every child whose tag is in `tags` made "1".
WithOnes(node, tags) ==
    [node EXCEPT !.kids = [i \in 1..Len(@) |->
        IF @[i].tag \in tags THEN Leaf(@[i].tag, <<"1">>) ELSE @[i]]]
DateTags == {"Year", "Month", "Day", "Hour", "Minute"}

\* C14 (as claimed): a PMID child without text gives pmid 0.
C14_MissingTextGivesZero ==
    (Returned /\ fn = "MedlineCitation" /\ HasKid(Input, "PMID")
       /\ IsNone(LastKid(Input, "PMID").text))
    => Output.pmid = 0

\* C14 (amended): a numeric text that is not a number of the field's range
\* never fails the decode. pmid is the number of the last PMID child that has
\* text, 0 if that text is not a number or no PMID child has text; a date
\* whose last Year is not a number is absent, and in a date that is there day
\* is 0 and hour and minute are -1 where the last Day, Hour or Minute is not
\* a number of the range. The decode fails or not, and gives every other field
\* the same value, as with "1" in place of those texts.
C14_ParseFailuresDefault ==
    /\ (Returned /\ fn = "MedlineCitation")
       => Output.pmid
            = LET ps == TextKids(Input, "PMID")
              IN IF ps = <<>> THEN 0
                 ELSE IF NumericIn(ps[Len(ps)].text, 0, WIDE_MAX)
                 THEN ValueOf(ps[Len(ps)].text) ELSE 0
    /\ (DecoderCalled /\ fn = "MedlineCitation")
       => \E alt \in {DecodeBy(fn, WithOnes(Input, {"PMID"}))} :
             /\ IsPanic(alt) <=> pc = "panicked"
             /\ pc = "returned" => \A f \in DOMAIN Output \ {"pmid"} : Output[f] = alt[f]
    /\ (Returned /\ fn = "PubMedDate")
       => IF NumericField(Input, "Year", 0, WIDE_MAX, 0) = 0 THEN Output.opt = None
          ELSE /\ IsSome(Output.opt)
               /\ Unwrap(Output.opt).year = NumericField(Input, "Year", 0, WIDE_MAX, 0)
               /\ Unwrap(Output.opt).day = NumericField(Input, "Day", 0, U8_MAX, 0)
               /\ Unwrap(Output.opt).hour = NumericField(Input, "Hour", I8_MIN, I8_MAX, -1)
               /\ Unwrap(Output.opt).minute = NumericField(Input, "Minute", I8_MIN, I8_MAX, -1)
    /\ (DecoderCalled /\ fn = "PubMedDate")
       => \E alt \in {DecodeBy(fn, WithOnes(Input, {"Day", "Hour", "Minute"}))} :
             /\ IsPanic(alt) <=> pc = "panicked"
             /\ (pc = "returned" /\ IsSome(Output.opt))
                => /\ IsSome(alt.opt)
                   /\ \A f \in {"year", "month", "date_type", "pub_status"} :
                         Unwrap(Output.opt)[f] = Unwrap(alt.opt)[f]
    /\ (DecoderCalled /\ fn = "PubMedDate" /\ \A k \in Range(Input.kids) : k.tag \in DateTags)
       => pc = "returned"

\* C14 witness: a date with Year 2012, Day "256", Hour "x" and Minute "128"
\* has decoded to a date of 2012 with day 0, hour -1 and minute -1.
C14_Witness ==
    /\ Returned /\ fn = "PubMedDate"
    /\ Input.kids = <<Leaf("Year", <<"2","0","1","2">>), Leaf("Day", <<"2","5","6">>),
                      Leaf("Hour", <<"x">>), Leaf("Minute", <<"1","2","8">>)>>
    /\ Output.opt = Some([year |-> 2012, month |-> 0, day |-> 0, hour |-> -1, minute |-> -1,
                          date_type |-> None, pub_status |-> None])

-----------------------------------------------------------------------------
(* Season and MedlineDate *)

Seasonal == {"Season", "MedlineDate"}
WithoutSeasonal(node) ==
    [node EXCEPT !.kids = SelectSeq(@, LAMBDA k : k.tag \notin Seasonal)]

\* C15: a date element decodes to what it decodes to without its Season and
\* MedlineDate children, a failure on an unrecognized tag included; an element
\* whose children are all Season or MedlineDate decodes to no date.
C15_SeasonalIgnored ==
    (DecoderCalled /\ fn = "PubMedDate")
    => /\ Output = DecodeBy(fn, WithoutSeasonal(Input))
       /\ (\A k \in Range(Input.kids) : k.tag \in Seasonal)
          => pc = "returned" /\ Output.opt = None

\* C15 witness: in strict mode, a date of Year 2012 and Month 8 followed by a
\* Season has decoded to the date 2012-08.
C15_Witness ==
    /\ Returned /\ fn = "PubMedDate" /\ strict
    /\ Input.kids = <<Leaf("Year", <<"2","0","1","2">>), Leaf("Month", <<"8">>),
                      Leaf("Season", <<"S","p","r","i","n","g">>)>>
    /\ IsSome(Output.opt)
    /\ Unwrap(Output.opt).year = 2012 /\ Unwrap(Output.opt).month = 8
\* In strict mode, a date with a MedlineDate alone has decoded to no date.
MedlineDateAlone ==
    /\ Returned /\ fn = "PubMedDate" /\ strict
    /\ Len(Input.kids) = 1 /\ Input.kids[1].tag = "MedlineDate"
    /\ Output.opt = None

-----------------------------------------------------------------------------
(* Ids from a query *)

QueryReturned == fn = "Client::article_ids_from_query" /\ pc = "returned"
\* The idlist of a response body, if the body has an idlist that is an array.
IdListOf(r) ==
    IF r.ok /\ IsSome(r.json) /\ Unwrap(r.json).j = "object"
       /\ "esearchresult" \in DOMAIN Unwrap(r.json).o
       /\ Unwrap(r.json).o["esearchresult"].j = "object"
       /\ "idlist" \in DOMAIN Unwrap(r.json).o["esearchresult"].o
       /\ Unwrap(r.json).o["esearchresult"].o["idlist"].j = "array"
    THEN Some(Unwrap(r.json).o["esearchresult"].o["idlist"].a)
    ELSE None
\* The entry is a string that is a non-zero unsigned number.
IsId(e) ==
    /\ e.j = "string"
    /\ NumericIn(Some(e.s), 0, WIDE_MAX)
    /\ ValueOf(Some(e.s)) # 0
ExpectedIds(idlist) ==
    LET kept == SelectSeq(idlist, IsId)
    IN [i \in 1..Len(kept) |-> ValueOf(Some(kept[i].s))]

\* C16: Client::article_ids_from_query returns, in the order of the idlist,
\* the numbers of exactly the entries that are strings of a non-zero unsigned
\* number, and an error when the response has no idlist that is an array.
C16_IdsFromQuery ==
    QueryReturned
    => IF IsSome(IdListOf(Unwrap(response)))
       THEN Output = [ok |-> ExpectedIds(Unwrap(IdListOf(Unwrap(response))))]
       ELSE "err" \in DOMAIN Output
            /\ (Unwrap(response).ok /\ IsSome(Unwrap(response).json)
                  => Output = [err |-> "API error/no results"])

\* C16 witness: the idlist "x", "22722859", 5 (a number) has given the one id
\* 22722859.
C16_Witness ==
    /\ QueryReturned
    /\ IdListOf(Unwrap(response))
         = Some(<<JString(<<"x">>), JString(<<"2","2","7","2","2","8","5","9">>), JNumber(5)>>)
    /\ Output = [ok |-> <<22722859>>]

-----------------------------------------------------------------------------
(* The delay between requests *)

\* The step that sends a retrieval request.
RequestSent == pc = "idle" /\ fn' \in {"Client::articles", "Client::article"}

\* C17 (as claimed): in every sequence of Client::articles calls, whatever the
\* outcome of each, no retrieval request is sent before the sleep has elapsed
\* since the one before.
C17_DelayBetweenRequests == [][RequestSent => paced]_vars

\* A call that returns its records has slept since it sent its request.
SleptWhenOk ==
    (pc \in {"slept", "collected"} \/ ArticlesReturnedOk) => paced

\* A call has returned an error without the sleep since its request.
ErrorWithoutSleep ==
    /\ ArticlesCalled /\ pc = "returned"
    /\ "err" \in DOMAIN Output
    /\ ~paced

-----------------------------------------------------------------------------
(* The range of month *)

\* C18 (as claimed): every date that a date element decodes to has its month
\* in 0..12, whatever the text of the Month element.
C18_MonthInRange ==
    (Returned /\ fn = "PubMedDate" /\ IsSome(Output.opt))
    => Unwrap(Output.opt).month \in 0..12

\* The month of a date is a number up to 255, and within 0..12 unless the
\* last Month element holds a number above 12.
MonthWithinByte ==
    (Returned /\ fn = "PubMedDate" /\ IsSome(Output.opt))
    => /\ Unwrap(Output.opt).month \in 0..U8_MAX
       /\ Unwrap(Output.opt).month > 12
          => /\ HasKid(Input, "Month")
             /\ NumericIn(LastKid(Input, "Month").text, 0, U8_MAX)
             /\ Unwrap(Output.opt).month = ValueOf(LastKid(Input, "Month").text)

-----------------------------------------------------------------------------
(* Client::article *)

ArticleCalled == fn = "Client::article" /\ IsSome(response)
ArticleReturned == ArticleCalled /\ pc = "returned"
\* The result is an error that names the id the call was made with.
NamesId == "err" \in DOMAIN Output /\ "id" \in DOMAIN Output /\ Output.id = ids[1]

\* C19 (as claimed): for a response that was received, Client::article
\* returns an error naming the id exactly when the text holds no record
\* element or Client::articles fails on it.
C19_ErrorNamesId ==
    (ArticleReturned /\ Unwrap(response).ok)
    => (NamesId <=> (Body \notin WellFormedTexts \/ RecordStarts(Body) = {}))

\* C19 (amended): Client::article returns the last record of the text in
\* document order when the text holds records, the error naming the id
\* exactly when the text is well-formed and holds no record element, and the
\* error of Client::articles, which does not name the id, when the request
\* fails or the text is not well-formed.
C19_LastRecordOrError ==
    ArticleReturned
    => /\ ~Unwrap(response).ok => Output = [err |-> "transport"]
       /\ (Unwrap(response).ok /\ Body \notin WellFormedTexts) => Output = [err |-> "xml"]
       /\ (Unwrap(response).ok /\ Body \in WellFormedTexts)
          => \E rs \in {ExpectedRecords(Body)} :
                IF rs = <<>>
                THEN Output = [err |-> "Can't find PubmedArticle for ID", id |-> ids[1]]
                ELSE Output = [ok |-> rs[Len(rs)]]
       /\ NamesId <=> (Unwrap(response).ok /\ Body \in WellFormedTexts
                         /\ RecordStarts(Body) = {})

\* C19 witness: for a text with the records of pmid 1 and pmid 2, in that
\* order, the call has returned the record of pmid 2.
C19_Witness ==
    /\ ArticleReturned /\ ids = <<22722859>>
    /\ Body = Serialize(Elem("PubmedArticleSet", {}, None, <<RecordA, RecordB>>))
    /\ "ok" \in DOMAIN Output
    /\ Unwrap(Output.ok.medline_citation).pmid = 2

\* The call has returned the error naming its id for a well-formed text
\* without records.
NotFoundReturned ==
    /\ ArticleReturned /\ ids = <<22722859>>
    /\ Body = Serialize(Elem("PubmedArticleSet", {}, None, <<>>))
    /\ Output = [err |-> "Can't find PubmedArticle for ID", id |-> 22722859]
====
